---------------------------- MODULE Spec2Model ----------------------------
(***************************************************************************)
(* Model of the WLab web viewer (legacy-wlab-app/web-viewer/src/app.py):   *)
(* station / channel discovery from the Graphite metric namespace, the     *)
(* daily, monthly and yearly series handlers that merge the min / max /    *)
(* avg statistic streams returned by the Graphite render API, and the      *)
(* availability tree; and of the MQTT bridge (mqtt-bridge/bridge.py) that  *)
(* decodes sensor messages into Graphite writes.                           *)
(*                                                                         *)
(* Conventions                                                             *)
(*   - A Python number is an exact rational <<num, den>> in lowest terms   *)
(*     with den > 0 (Graphite values are floats; "/" is true division).    *)
(*   - Python None is the empty tuple <<>>.  An optional integer (a        *)
(*     timestamp that may be None) is <<>> or <<n>>.                       *)
(*   - A Python dict is [keys |-> insertion order, val |-> key -> value];  *)
(*     a dict used only as a record of fields is a TLA+ function whose     *)
(*     domain is the set of keys present.                                  *)
(*   - datetime.fromtimestamp is a scaled-down calendar: TicksPerDay       *)
(*     timestamps per day, DaysPerMonth days per month, MonthsPerYear      *)
(*     months per year.                                                    *)
(***************************************************************************)
EXTENDS Integers, Sequences, FiniteSets, TLC

VARIABLES
    metrics,   \* the leaf metric paths of the Graphite namespace, in listing order
    backend,   \* what the render API answers for each queried target
    req,       \* the parameters of the last request
    op,        \* the handler that produced resp ("idle" before any request)
    resp,      \* the body of the last response
    outage,    \* the backend endpoints whose requests fail ("find", "render")
    socket,    \* GraphiteClient.socket of the bridge
    topic_prefix   \* MQTTBridge.topic_prefix, the "/"-separated segments of the
                   \* configured prefix (<<>> is the empty prefix)

vars == <<metrics, backend, req, op, resp, outage, socket, topic_prefix>>

---------------------------------------------------------------------------
(* Bounds of the model *)

MaxMetrics == 4     \* leaf metrics in the namespace
MaxPoints == 3      \* datapoints the backend returns in total for one request
MaxTs == 3          \* distinct timestamps of the queried window
MaxVal == 1         \* sample values are 0 .. MaxVal
FirstTs == 6        \* first timestamp of the queried window
TicksPerDay == 2    \* calendar scale: timestamps per day
DaysPerMonth == 2   \* calendar scale: days per month
MonthsPerYear == 2  \* calendar scale: months per year

Timestamps == FirstTs .. (FirstTs + MaxTs - 1)
Stats == {"min", "max", "avg"}

---------------------------------------------------------------------------
(* Python values *)

None == <<>>

Abs(n) == IF n < 0 THEN -n ELSE n

RECURSIVE GCD(_, _)
GCD(a, b) == IF b = 0 THEN a ELSE GCD(b, a % b)

\* The rational n/d (d # 0) in lowest terms with a positive denominator.
Rat(n, d) ==
    LET g == GCD(Abs(n), Abs(d))
        s == IF d < 0 THEN -1 ELSE 1
    IN  <<(s * n) \div g, (s * d) \div g>>

RatOfInt(n) == <<n, 1>>
RatAdd(a, b) == Rat(a[1] * b[2] + b[1] * a[2], a[2] * b[2])
RatDivInt(a, k) == Rat(a[1], a[2] * k)
RatLess(a, b) == a[1] * b[2] < b[1] * a[2]
RatLeq(a, b) == a[1] * b[2] <= b[1] * a[2]

Values == {RatOfInt(v) : v \in 0 .. MaxVal}

\* sum(xs), min(xs), max(xs) of a list of numbers (min / max of a non-empty list).
RECURSIVE Sum(_)
Sum(xs) == IF xs = <<>> THEN RatOfInt(0) ELSE RatAdd(Head(xs), Sum(Tail(xs)))

RECURSIVE Min(_)
Min(xs) ==
    IF Len(xs) = 1 THEN xs[1]
    ELSE LET m == Min(Tail(xs)) IN IF RatLess(m, xs[1]) THEN m ELSE xs[1]

RECURSIVE Max(_)
Max(xs) ==
    IF Len(xs) = 1 THEN xs[1]
    ELSE LET m == Max(Tail(xs)) IN IF RatLess(xs[1], m) THEN m ELSE xs[1]

\* d[k] = v on a dict used as a record of fields.
Put(d, k, v) == [x \in (DOMAIN d) \cup {k} |-> IF x = k THEN v ELSE d[x]]

\* d.get(k, default)
Get(d, k, default) == IF k \in DOMAIN d THEN d[k] ELSE default

\* del d[k]
Del(d, k) == [x \in (DOMAIN d) \ {k} |-> d[x]]

\* An insertion-ordered dict of records.
EmptyDict == [keys |-> <<>>, val |-> <<>>]

Has(d, k) == k \in DOMAIN d.val

\* if k not in d: d[k] = {}
SetDefault(d, k) ==
    IF Has(d, k) THEN d
    ELSE [keys |-> Append(d.keys, k), val |-> Put(d.val, k, <<>>)]

\* d[k][field] = v, k being a key of d
SetField(d, k, field, v) == [d EXCEPT !.val[k] = Put(@, field, v)]

\* d[k] = rec (a new key goes last)
SetItem(d, k, rec) ==
    [keys |-> IF Has(d, k) THEN d.keys ELSE Append(d.keys, k),
     val |-> Put(d.val, k, rec)]

---------------------------------------------------------------------------
(* The calendar: datetime.fromtimestamp(ts) *)

DayIndex(ts) == ts \div TicksPerDay
MonthIndex(ts) == DayIndex(ts) \div DaysPerMonth

YearOf(ts) == MonthIndex(ts) \div MonthsPerYear
MonthOf(ts) == (MonthIndex(ts) % MonthsPerYear) + 1
DayOf(ts) == (DayIndex(ts) % DaysPerMonth) + 1

\* strftime("%d"): the day of the month, zero-padded to two digits
StrfDay(ts) == IF DayOf(ts) < 10 THEN "0" \o ToString(DayOf(ts)) ELSE ToString(DayOf(ts))

---------------------------------------------------------------------------
(* The render API *)

\* Faulty variant of query_graphite: a failed request is not turned into [],
\* the series are answered all the same.
query_graphite_IgnoreFailure(target) == backend[target]

\* query_graphite(target): the list of series the render API answers, [] when
\* the request fails (RequestException) or no series matches.
query_graphite(target) == IF "render" \in outage THEN <<>> ELSE backend[target]

\* data[0].get("datapoints", []) guarded by "if data and len(data) > 0"
Datapoints(data) ==
    IF data # <<>> /\ Len(data) > 0 THEN Get(data[1], "datapoints", <<>>) ELSE <<>>

---------------------------------------------------------------------------
(* The backend's answers to the three statistic queries of one request *)

Slots == Stats \X Timestamps
PointValues == Values \cup {None}

\* The datapoints [value, timestamp] of one statistic, sorted by timestamp.
RECURSIVE PointsFrom(_, _, _, _)
PointsFrom(stat, S, f, ts) ==
    IF ts > FirstTs + MaxTs - 1 THEN <<>>
    ELSE IF <<stat, ts>> \in S
         THEN <<(<<f[<<stat, ts>>], ts>>)>> \o PointsFrom(stat, S, f, ts + 1)
         ELSE PointsFrom(stat, S, f, ts + 1)

\* A render answer: no series at all (failed query, unknown metric) or one
\* series with its datapoints.
Answer(stat, S, f, failed) ==
    IF stat \in failed THEN <<>>
    ELSE <<[target |-> stat, datapoints |-> PointsFrom(stat, S, f, FirstTs)]>>

InitBackend ==
    \E S \in SUBSET Slots :
        /\ Cardinality(S) <= MaxPoints
        /\ \E f \in [S -> PointValues] :
           \E failed \in SUBSET {st \in Stats : \A ts \in Timestamps : <<st, ts>> \notin S} :
               backend = [st \in Stats |-> Answer(st, S, f, failed)]

---------------------------------------------------------------------------
(* station_dailyserie and station_yearlyserie: merging the three streams *)

\* Faulty variant of MergePoint: an avg point does not create the record
\* of its timestamp, it only completes one that a min or max point created.
MergePoint_AvgNoCreate(result, stat, value, timestamp) ==
    LET ts_str == ToString(timestamp)
        r0 == SetDefault(result, ts_str)
    IN  IF value = None THEN result
        ELSE CASE stat = "min" ->
                    SetField(SetField(r0, ts_str, "f_min", value),
                             ts_str, "i_min_ts", timestamp)
               [] stat = "max" ->
                    SetField(SetField(r0, ts_str, "f_max", value),
                             ts_str, "i_max_ts", timestamp)
               [] stat = "avg" ->
                    IF Has(result, ts_str)
                    THEN SetField(SetField(SetField(r0, ts_str, "f_avg", value),
                                           ts_str, "f_act", value),
                                  ts_str, "i_act_ts", timestamp)
                    ELSE result

\* The body of the three loops over the datapoints of a statistic: a non-null
\* point creates the record of its timestamp if needed and sets its fields.
MergePoint(result, stat, value, timestamp) ==
    LET ts_str == ToString(timestamp)
        r0 == SetDefault(result, ts_str)
    IN  IF value = None THEN result
        ELSE CASE stat = "min" ->
                    SetField(SetField(r0, ts_str, "f_min", value),
                             ts_str, "i_min_ts", timestamp)
               [] stat = "max" ->
                    SetField(SetField(r0, ts_str, "f_max", value),
                             ts_str, "i_max_ts", timestamp)
               [] stat = "avg" ->
                    SetField(SetField(SetField(r0, ts_str, "f_avg", value),
                                      ts_str, "f_act", value),
                             ts_str, "i_act_ts", timestamp)

\* for value, timestamp in data[0].get("datapoints", []): ...
RECURSIVE MergeStream(_, _, _, _)
MergeStream(result, stat, points, i) ==
    IF i > Len(points) THEN result
    ELSE MergeStream(MergePoint(result, stat, points[i][1], points[i][2]),
                     stat, points, i + 1)

\* The per-timestamp records after the min, max and avg loops.
MergeStreams(min_data, max_data, avg_data) ==
    LET a == MergeStream(EmptyDict, "min", Datapoints(min_data), 1)
        b == MergeStream(a, "max", Datapoints(max_data), 1)
    IN  MergeStream(b, "avg", Datapoints(avg_data), 1)

\* int(ts_str)
IntOfStr(s) == CHOOSE n \in Timestamps : ToString(n) = s

\* The statistics present in a record, in the order min, max, avg.
AvailableValues(ts_data) ==
    (IF "f_min" \in DOMAIN ts_data THEN <<ts_data["f_min"]>> ELSE <<>>)
    \o (IF "f_max" \in DOMAIN ts_data THEN <<ts_data["f_max"]>> ELSE <<>>)
    \o (IF "f_avg" \in DOMAIN ts_data THEN <<ts_data["f_avg"]>> ELSE <<>>)

\* Faulty variant of FillMissing: the branch that fills a missing f_avg is missing.
FillMissing_SkipAvg(ts_str, ts_data) ==
    LET available_values == AvailableValues(ts_data)
        default_val == RatDivInt(Sum(available_values), Len(available_values))
        d1 == IF "f_min" \notin DOMAIN ts_data
              THEN Put(Put(ts_data, "f_min", default_val), "i_min_ts", IntOfStr(ts_str))
              ELSE ts_data
        d2 == IF "f_max" \notin DOMAIN d1
              THEN Put(Put(d1, "f_max", default_val), "i_max_ts", IntOfStr(ts_str))
              ELSE d1
    IN  IF available_values # <<>> THEN d2 ELSE ts_data

\* Faulty variant of FillMissing: the default is the sum of the available
\* values, not their mean.
FillMissing_SumNotMean(ts_str, ts_data) ==
    LET available_values == AvailableValues(ts_data)
        default_val == Sum(available_values)
        d1 == IF "f_min" \notin DOMAIN ts_data
              THEN Put(Put(ts_data, "f_min", default_val), "i_min_ts", IntOfStr(ts_str))
              ELSE ts_data
        d2 == IF "f_max" \notin DOMAIN d1
              THEN Put(Put(d1, "f_max", default_val), "i_max_ts", IntOfStr(ts_str))
              ELSE d1
        d3 == IF "f_avg" \notin DOMAIN d2
              THEN Put(Put(Put(d2, "f_avg", default_val), "f_act", default_val),
                       "i_act_ts", IntOfStr(ts_str))
              ELSE d2
    IN  IF available_values # <<>> THEN d3 ELSE ts_data

\* The body of the defaulting loop for one record.
FillMissing(ts_str, ts_data) ==
    LET available_values == AvailableValues(ts_data)
        default_val == RatDivInt(Sum(available_values), Len(available_values))
        d1 == IF "f_min" \notin DOMAIN ts_data
              THEN Put(Put(ts_data, "f_min", default_val), "i_min_ts", IntOfStr(ts_str))
              ELSE ts_data
        d2 == IF "f_max" \notin DOMAIN d1
              THEN Put(Put(d1, "f_max", default_val), "i_max_ts", IntOfStr(ts_str))
              ELSE d1
        d3 == IF "f_avg" \notin DOMAIN d2
              THEN Put(Put(Put(d2, "f_avg", default_val), "f_act", default_val),
                       "i_act_ts", IntOfStr(ts_str))
              ELSE d2
    IN  IF available_values # <<>> THEN d3 ELSE ts_data

\* for ts_str, ts_data in result.items(): fill the missing statistics
ApplyDefaults(result) ==
    [result EXCEPT !.val = [k \in DOMAIN result.val |-> FillMissing(k, result.val[k])]]

\* The values of one field over result.values(), in key order.
RECURSIVE Collect(_, _, _)
Collect(result, field, i) ==
    IF i > Len(result.keys) THEN <<>>
    ELSE LET ts_data == result.val[result.keys[i]]
         IN  (IF field \in DOMAIN ts_data THEN <<ts_data[field]>> ELSE <<>>)
             \o Collect(result, field, i + 1)

\* Faulty variant of General: f_min is the first f_min, not the smallest.
General_FirstNotMin(result) ==
    LET all_min == Collect(result, "f_min", 1)
        all_max == Collect(result, "f_max", 1)
        all_avg == Collect(result, "f_avg", 1)
        g1 == IF all_min # <<>> THEN Put(<<>>, "f_min", all_min[1]) ELSE <<>>
        g2 == IF all_max # <<>> THEN Put(g1, "f_max", Max(all_max)) ELSE g1
    IN  IF all_avg # <<>>
        THEN Put(Put(g2, "f_avg_buff", Sum(all_avg)), "i_counter", Len(all_avg))
        ELSE g2

\* The "general" record of the daily view.
General(result) ==
    LET all_min == Collect(result, "f_min", 1)
        all_max == Collect(result, "f_max", 1)
        all_avg == Collect(result, "f_avg", 1)
        g1 == IF all_min # <<>> THEN Put(<<>>, "f_min", Min(all_min)) ELSE <<>>
        g2 == IF all_max # <<>> THEN Put(g1, "f_max", Max(all_max)) ELSE g1
    IN  IF all_avg # <<>>
        THEN Put(Put(g2, "f_avg_buff", Sum(all_avg)), "i_counter", Len(all_avg))
        ELSE g2

AddGeneral(result) ==
    IF result.keys # <<>>
       /\ (Collect(result, "f_min", 1) # <<>> \/ Collect(result, "f_max", 1) # <<>>
           \/ Collect(result, "f_avg", 1) # <<>>)
    THEN SetItem(result, "general", General(result))
    ELSE result

\* The body of the daily response for the three render answers.
DailyResult(min_data, max_data, avg_data) ==
    AddGeneral(ApplyDefaults(MergeStreams(min_data, max_data, avg_data)))

\* station_dailyserie for a known station and channel and a well-formed date.
DailySerie ==
    /\ op = "idle"
    /\ resp' = DailyResult(query_graphite("min"), query_graphite("max"),
                           query_graphite("avg"))
    /\ op' = "daily"
    /\ UNCHANGED <<metrics, backend, req, outage, socket, topic_prefix>>

InitSeries ==
    /\ InitBackend
    /\ metrics = <<>>
    /\ req = <<>>
    /\ op = "idle"
    /\ resp = <<>>
    /\ outage = {}
    /\ socket = None
    /\ topic_prefix = <<>>

NextDaily == DailySerie

SpecDaily == InitSeries /\ [][NextDaily]_vars

\* The same behaviours, for the properties of the order of the statistics.
SpecDailyOrder == InitSeries /\ [][DailySerie]_vars

---------------------------------------------------------------------------
(* station_yearlyserie: the per-timestamp records grouped by month *)

\* values.get(k) for a timestamp field: None or the integer, as <<n>>.
OptGet(values, k) == IF k \in DOMAIN values THEN <<values[k]>> ELSE None

\* The bucket a month gets from the first of its records.
YearlyFirst(values) ==
    [f_min |-> Get(values, "f_min", None),
     f_max |-> Get(values, "f_max", None),
     f_avg |-> Get(values, "f_avg", None),
     f_act |-> Get(values, "f_act", None),
     i_min_ts |-> OptGet(values, "i_min_ts"),
     i_max_ts |-> OptGet(values, "i_max_ts"),
     i_act_ts |-> OptGet(values, "i_act_ts"),
     count |-> 1,
     sum_avg |-> Get(values, "f_avg", RatOfInt(0))]

\* Faulty variant of YearlyUpdate: "<=" and ">=" where the bucket is compared,
\* so that on ties the last record processed gives the timestamp.
YearlyUpdate_LastOnTies(bucket, values) ==
    LET b1 == IF "f_min" \in DOMAIN values
                 /\ (bucket.f_min = None \/ RatLeq(values["f_min"], bucket.f_min))
              THEN [bucket EXCEPT !.f_min = values["f_min"],
                                  !.i_min_ts = OptGet(values, "i_min_ts")]
              ELSE bucket
        b2 == IF "f_max" \in DOMAIN values
                 /\ (b1.f_max = None \/ RatLeq(b1.f_max, values["f_max"]))
              THEN [b1 EXCEPT !.f_max = values["f_max"],
                              !.i_max_ts = OptGet(values, "i_max_ts")]
              ELSE b1
    IN  IF "f_avg" \in DOMAIN values
        THEN [b2 EXCEPT !.sum_avg = RatAdd(@, values["f_avg"]), !.count = @ + 1]
        ELSE b2

\* The update of a month's bucket by a later record of the month.
YearlyUpdate(bucket, values) ==
    LET b1 == IF "f_min" \in DOMAIN values
                 /\ (bucket.f_min = None \/ RatLess(values["f_min"], bucket.f_min))
              THEN [bucket EXCEPT !.f_min = values["f_min"],
                                  !.i_min_ts = OptGet(values, "i_min_ts")]
              ELSE bucket
        b2 == IF "f_max" \in DOMAIN values
                 /\ (b1.f_max = None \/ RatLess(b1.f_max, values["f_max"]))
              THEN [b1 EXCEPT !.f_max = values["f_max"],
                              !.i_max_ts = OptGet(values, "i_max_ts")]
              ELSE b1
    IN  IF "f_avg" \in DOMAIN values
        THEN [b2 EXCEPT !.sum_avg = RatAdd(@, values["f_avg"]), !.count = @ + 1]
        ELSE b2

\* for ts_str, values in result.items(): ...
RECURSIVE YearlyAggregate(_, _, _)
YearlyAggregate(monthly_aggregated, result, i) ==
    IF i > Len(result.keys) THEN monthly_aggregated
    ELSE LET ts_str == result.keys[i]
             values == result.val[ts_str]
             month == ToString(MonthOf(IntOfStr(ts_str)))
         IN  IF ~Has(monthly_aggregated, month)
             THEN YearlyAggregate(SetItem(monthly_aggregated, month, YearlyFirst(values)),
                                  result, i + 1)
             ELSE YearlyAggregate(
                      SetItem(monthly_aggregated, month,
                              YearlyUpdate(monthly_aggregated.val[month], values)),
                      result, i + 1)

\* The final average of a bucket and the removal of its temporary fields.
YearlyFinal(bucket) ==
    LET b1 == IF bucket.count > 0
              THEN [bucket EXCEPT !.f_avg = RatDivInt(bucket.sum_avg, bucket.count),
                                  !.f_act = RatDivInt(bucket.sum_avg, bucket.count)]
              ELSE bucket
    IN  Del(Del(b1, "count"), "sum_avg")

\* The body of the yearly response for the three render answers.
YearlyResult(min_data, max_data, avg_data) ==
    LET result == MergeStreams(min_data, max_data, avg_data)
        monthly_aggregated == YearlyAggregate(EmptyDict, result, 1)
    IN  [monthly_aggregated EXCEPT
            !.val = [month \in DOMAIN monthly_aggregated.val |->
                        YearlyFinal(monthly_aggregated.val[month])]]

\* station_yearlyserie for a known station and channel and a well-formed year.
YearlySerie ==
    /\ op = "idle"
    /\ resp' = YearlyResult(query_graphite("min"), query_graphite("max"),
                            query_graphite("avg"))
    /\ op' = "yearly"
    /\ UNCHANGED <<metrics, backend, req, outage, socket, topic_prefix>>

NextYearly == YearlySerie

SpecYearly == InitSeries /\ [][NextYearly]_vars

---------------------------------------------------------------------------
(* station_monthlyserie: day buckets of one month *)

\* In the monthly view the min and max answers are those of the targets
\* summarize(...min, '1d', 'min') and summarize(...max, '1d', 'max'), and the
\* avg answer is that of the raw avg target.  The answer to the summarized
\* avg target is fetched and never read.

\* Faulty variant of InMonth: the test of the year and the month is missing.
InMonth_NoFilter(timestamp, year, month) == TRUE

\* day_dt.year == int(year) and day_dt.month == int(month)
InMonth(timestamp, year, month) == YearOf(timestamp) = year /\ MonthOf(timestamp) = month

\* One iteration of the loops over the summarized min and max datapoints.
MonthlyPoint(result, stat, value, timestamp, year, month) ==
    LET day_num == StrfDay(timestamp)
        r0 == SetDefault(result, day_num)
    IN  IF value # None /\ InMonth(timestamp, year, month)
        THEN IF stat = "min"
             THEN SetField(SetField(r0, day_num, "f_min", value),
                           day_num, "i_min_ts", timestamp)
             ELSE SetField(SetField(r0, day_num, "f_max", value),
                           day_num, "i_max_ts", timestamp)
        ELSE result

RECURSIVE MonthlyStream(_, _, _, _, _, _)
MonthlyStream(result, stat, points, i, year, month) ==
    IF i > Len(points) THEN result
    ELSE MonthlyStream(MonthlyPoint(result, stat, points[i][1], points[i][2], year, month),
                       stat, points, i + 1, year, month)

\* day_values: the non-null raw avg points of the month, grouped by day.
RECURSIVE DayValues(_, _, _, _, _)
DayValues(day_values, points, i, year, month) ==
    IF i > Len(points) THEN day_values
    ELSE LET value == points[i][1]
             timestamp == points[i][2]
             day_num == StrfDay(timestamp)
         IN  IF value # None /\ InMonth(timestamp, year, month)
             THEN DayValues(
                      SetItem(day_values, day_num,
                              Append(IF Has(day_values, day_num)
                                     THEN day_values.val[day_num] ELSE <<>>,
                                     <<value, timestamp>>)),
                      points, i + 1, year, month)
             ELSE DayValues(day_values, points, i + 1, year, month)

\* Faulty variant of AvgFields: f_act and i_act_ts are taken from the first
\* point of the day, not the last.
AvgFields_FirstAsAct(day_data, values) ==
    LET all_vals == [i \in 1 .. Len(values) |-> values[i][1]]
    IN  Put(Put(Put(Put(day_data, "f_avg_buff", Sum(all_vals)),
                    "i_counter", Len(all_vals)),
                "f_act", values[1][1]),
            "i_act_ts", values[1][2])

\* f_avg_buff, i_counter, f_act and i_act_ts of a day from its raw avg points.
AvgFields(day_data, values) ==
    LET all_vals == [i \in 1 .. Len(values) |-> values[i][1]]
    IN  Put(Put(Put(Put(day_data, "f_avg_buff", Sum(all_vals)),
                    "i_counter", Len(all_vals)),
                "f_act", values[Len(values)][1]),
            "i_act_ts", values[Len(values)][2])

\* for day_num, values in day_values.items(): ...
RECURSIVE MonthlyAverages(_, _, _)
MonthlyAverages(result, day_values, i) ==
    IF i > Len(day_values.keys) THEN result
    ELSE LET day_num == day_values.keys[i]
             r0 == SetDefault(result, day_num)
         IN  MonthlyAverages(
                 [r0 EXCEPT !.val[day_num] = AvgFields(@, day_values.val[day_num])],
                 day_values, i + 1)

\* Faulty variant of MonthlyFallback: the sum of f_min and f_max is not halved.
MonthlyFallback_NoHalf(day_data) ==
    LET avg_val == RatAdd(Get(day_data, "f_min", RatOfInt(0)),
                          Get(day_data, "f_max", RatOfInt(0)))
    IN  IF "f_avg_buff" \notin DOMAIN day_data
           /\ "f_min" \in DOMAIN day_data /\ "f_max" \in DOMAIN day_data
        THEN Put(Put(Put(Put(day_data, "f_avg_buff", avg_val),
                         "i_counter", 1),
                     "f_act", avg_val),
                 "i_act_ts", Get(day_data, "i_max_ts", 0))
        ELSE day_data

\* The fallback for a day that has f_min and f_max and no f_avg_buff.
MonthlyFallback(day_data) ==
    LET avg_val == RatDivInt(RatAdd(Get(day_data, "f_min", RatOfInt(0)),
                                    Get(day_data, "f_max", RatOfInt(0))), 2)
    IN  IF "f_avg_buff" \notin DOMAIN day_data
           /\ "f_min" \in DOMAIN day_data /\ "f_max" \in DOMAIN day_data
        THEN Put(Put(Put(Put(day_data, "f_avg_buff", avg_val),
                         "i_counter", 1),
                     "f_act", avg_val),
                 "i_act_ts", Get(day_data, "i_max_ts", 0))
        ELSE day_data

\* The body of the monthly response for the render answers of a month.
MonthlyResult(min_data, max_data, raw_avg_data, year, month) ==
    LET a == MonthlyStream(EmptyDict, "min", Datapoints(min_data), 1, year, month)
        b == MonthlyStream(a, "max", Datapoints(max_data), 1, year, month)
        day_values == DayValues(EmptyDict, Datapoints(raw_avg_data), 1, year, month)
        c == MonthlyAverages(b, day_values, 1)
    IN  [c EXCEPT !.val = [day_num \in DOMAIN c.val |-> MonthlyFallback(c.val[day_num])]]

\* The months a request asks for: those of the queried window.
Requests == {[year |-> YearOf(ts), month |-> MonthOf(ts)] : ts \in Timestamps}

\* station_monthlyserie for a known station and channel and a date YYYY-MM.
MonthlySerie ==
    /\ op = "idle"
    /\ \E r \in Requests :
        /\ req' = r
        /\ resp' = MonthlyResult(query_graphite("min"), query_graphite("max"),
                                 query_graphite("avg"), r.year, r.month)
    /\ op' = "monthly"
    /\ UNCHANGED <<metrics, backend, outage, socket, topic_prefix>>

\* A summarized series has one point per day.
OnePerDay(data) ==
    \A i, j \in 1 .. Len(Datapoints(data)) :
        i # j => DayIndex(Datapoints(data)[i][2]) # DayIndex(Datapoints(data)[j][2])

InitMonthly ==
    /\ InitSeries
    /\ OnePerDay(backend["min"])
    /\ OnePerDay(backend["max"])

NextMonthly == MonthlySerie

SpecMonthly == InitMonthly /\ [][NextMonthly]_vars

---------------------------------------------------------------------------
(* get_stations_desc: stations and channels from the metric namespace *)

\* A metric path is the list of its dot-separated segments; the device
\* segment (the second one) is the list of its "_"-separated tokens, so that
\* "MY_ST_A1" is <<"MY", "ST", "A1">>.

METRIC_PREFIX == "monitoring_data"

\* The legacy UID -> name table.
LEGACY_DEVICES == [uid \in {"110020FF0001"} |-> <<"Rodos">>]

\* The device segments and channel names the namespace may hold.
DeviceSegments == {<<"RODOS", "110020FF0001">>, <<"MY", "ST", "A1">>}
SerieNames == {"Temperature", "Humidity", "Pressure", "Wind", "battery"}

\* The code points of the characters of a channel name.
CodePoints(name) ==
    CASE name = "Temperature" -> <<84, 101, 109, 112, 101, 114, 97, 116, 117, 114, 101>>
      [] name = "Humidity" -> <<72, 117, 109, 105, 100, 105, 116, 121>>
      [] name = "Pressure" -> <<80, 114, 101, 115, 115, 117, 114, 101>>
      [] name = "Wind" -> <<87, 105, 110, 100>>
      [] name = "battery" -> <<98, 97, 116, 116, 101, 114, 121>>

\* a < b for two strings, as Python compares them (by code point).
RECURSIVE SeqLess(_, _)
SeqLess(a, b) ==
    IF b = <<>> THEN FALSE
    ELSE IF a = <<>> THEN TRUE
    ELSE IF Head(a) # Head(b) THEN Head(a) < Head(b)
    ELSE SeqLess(Tail(a), Tail(b))

StrLess(a, b) == SeqLess(CodePoints(a), CodePoints(b))

\* sorted(series_set)
RECURSIVE Sorted(_)
Sorted(S) ==
    IF S = {} THEN <<>>
    ELSE LET least == CHOOSE x \in S : \A y \in S \ {x} : StrLess(x, y)
         IN  <<least>> \o Sorted(S \ {least})

\* The elements of a list, as a set.
ToSet(xs) == {xs[i] : i \in 1 .. Len(xs)}

\* A list without the repetitions of its elements (first occurrences kept).
RECURSIVE Distinct(_)
Distinct(xs) ==
    IF xs = <<>> THEN <<>>
    ELSE LET front == Distinct(SubSeq(xs, 1, Len(xs) - 1))
             last == xs[Len(xs)]
         IN  IF last \in ToSet(front) THEN front ELSE Append(front, last)

RECURSIVE SelectPaths(_, _)
SelectPaths(xs, device) ==
    IF xs = <<>> THEN <<>>
    ELSE (IF Head(xs).device = device THEN <<Head(xs)>> ELSE <<>>)
         \o SelectPaths(Tail(xs), device)

\* find_metrics(f"{METRIC_PREFIX}.*"): the device nodes, in listing order; [] when
\* the request fails (RequestException).
FindDevices ==
    LET nodes == Distinct([i \in 1 .. Len(metrics) |-> metrics[i].device])
    IN  IF "find" \in outage THEN <<>>
        ELSE [i \in 1 .. Len(nodes) |-> <<METRIC_PREFIX, nodes[i]>>]

\* find_metrics(f"{METRIC_PREFIX}.{device_name_uid}.*"): the channel nodes of
\* the device segment, in listing order.
FindSeries(device_name_uid) ==
    LET leaves == SelectPaths(metrics, device_name_uid)
        nodes == Distinct([i \in 1 .. Len(leaves) |-> leaves[i].serie])
    IN  IF "find" \in outage THEN <<>>
        ELSE [i \in 1 .. Len(nodes) |-> <<METRIC_PREFIX, device_name_uid, nodes[i]>>]

\* if "_" in device_name_uid: name, uid = device_name_uid.rsplit("_", 1)
\* else: uid = device_name_uid; name = LEGACY_DEVICES.get(uid, uid)
NameUid(device_name_uid) ==
    IF Len(device_name_uid) >= 2
    THEN [name |-> SubSeq(device_name_uid, 1, Len(device_name_uid) - 1),
          uid |-> device_name_uid[Len(device_name_uid)]]
    ELSE [name |-> Get(LEGACY_DEVICES, device_name_uid[1], device_name_uid),
          uid |-> device_name_uid[1]]

\* Faulty variant of Stations: a later segment of a uid replaces the station
\* of an earlier one.
RECURSIVE Stations_LastWins(_, _, _)
Stations_LastWins(stations, found, i) ==
    IF i > Len(found) THEN stations
    ELSE LET parts == found[i]
             nu == NameUid(parts[2])
             station == [uid |-> nu.uid, name |-> nu.name, series |-> <<>>,
                         timezone |-> "Europe/Warsaw",
                         longitude |-> "50.0", latitude |-> "19.0"]
         IN  IF Len(parts) >= 2
             THEN Stations_LastWins(SetItem(stations, nu.uid, station), found, i + 1)
             ELSE Stations_LastWins(stations, found, i + 1)

\* The first loop of get_stations_desc: one station per uid, the first name kept.
RECURSIVE Stations(_, _, _)
Stations(stations, found, i) ==
    IF i > Len(found) THEN stations
    ELSE LET parts == found[i]
             nu == NameUid(parts[2])
             station == [uid |-> nu.uid, name |-> nu.name, series |-> <<>>,
                         timezone |-> "Europe/Warsaw",
                         longitude |-> "50.0", latitude |-> "19.0"]
         IN  IF Len(parts) >= 2 /\ ~Has(stations, nu.uid)
             THEN Stations(SetItem(stations, nu.uid, station), found, i + 1)
             ELSE Stations(stations, found, i + 1)

\* series_set: the third segment of every path that has one.
SeriesSet(series_metrics) ==
    {series_metrics[i][3] : i \in {j \in 1 .. Len(series_metrics) : Len(series_metrics[j]) >= 3}}

\* for serie_name in sorted(series_set): if serie_name not in serie_dict: ...
RECURSIVE AssignIds(_, _, _, _)
AssignIds(serie_dict, names, i, next_id) ==
    IF i > Len(names) THEN serie_dict
    ELSE IF ~Has(serie_dict, names[i])
         THEN AssignIds(SetItem(serie_dict, names[i], next_id), names, i + 1, next_id + 1)
         ELSE AssignIds(serie_dict, names, i + 1, next_id)

\* Faulty variant of SerieDict: the names are taken in listing order, not sorted.
SerieDict_Unsorted(series_metrics) ==
    LET series_set == SeriesSet(series_metrics)
        d1 == IF "Temperature" \in series_set
              THEN SetItem(EmptyDict, "Temperature", 1) ELSE EmptyDict
        d2 == IF "Humidity" \in series_set THEN SetItem(d1, "Humidity", 2) ELSE d1
    IN  AssignIds(d2, Distinct([i \in 1 .. Len(series_metrics) |-> series_metrics[i][3]]),
                  1, 3)

\* serie_dict: the channel name -> ID map of one station.
SerieDict(series_metrics) ==
    LET series_set == SeriesSet(series_metrics)
        d1 == IF "Temperature" \in series_set
              THEN SetItem(EmptyDict, "Temperature", 1) ELSE EmptyDict
        d2 == IF "Humidity" \in series_set THEN SetItem(d1, "Humidity", 2) ELSE d1
    IN  AssignIds(d2, Sorted(series_set), 1, 3)

\* float("50.0"), float("19.0")
FloatOf(s) == IF s = "50.0" THEN RatOfInt(50) ELSE RatOfInt(19)

\* The second loop and the result of get_stations_desc for one station.
StationDesc(station) ==
    LET device_name_uid == Append(station.name, station.uid)
        serie_dict == SerieDict(FindSeries(device_name_uid))
    IN  [uid |-> station.uid,
         name |-> station.name,
         serie |-> serie_dict,
         description |-> <<station.name, " Weather Station">>,
         timezone |-> station.timezone,
         longitude |-> FloatOf(station.longitude),
         latitude |-> FloatOf(station.latitude)]

get_stations_desc ==
    LET stations == Stations(EmptyDict, FindDevices, 1)
    IN  [keys |-> stations.keys,
         val |-> [uid \in DOMAIN stations.val |-> StationDesc(stations.val[uid])]]

\* stations_desc: GET /restq/stations/desc
StationsDesc ==
    /\ op = "idle"
    /\ resp' = get_stations_desc
    /\ op' = "desc"
    /\ UNCHANGED <<metrics, backend, req, outage, socket, topic_prefix>>

\* The leaves of the namespace: distinct (device segment, channel) pairs in
\* the order the backend lists them.
Leaves == [device : DeviceSegments, serie : SerieNames]

RECURSIVE Listings(_)
Listings(n) ==
    IF n = 0 THEN {<<>>}
    ELSE LET shorter == Listings(n - 1)
         IN  shorter \cup {Append(xs, leaf) : xs \in {ys \in shorter : Len(ys) = n - 1},
                                              leaf \in Leaves}

InitDesc ==
    /\ metrics \in {xs \in Listings(MaxMetrics) : Cardinality(ToSet(xs)) = Len(xs)}
    /\ backend = <<>>
    /\ req = <<>>
    /\ op = "idle"
    /\ resp = <<>>
    /\ outage = {}
    /\ socket = None
    /\ topic_prefix = <<>>

NextDesc == StationsDesc

SpecDesc == InitDesc /\ [][NextDesc]_vars

---------------------------------------------------------------------------
(* get_stations_desc on a namespace of legacy and renamed devices *)

\* Device segments with and without "_": a legacy uid alone and under its
\* name, another uid alone, under a name that has a "_" and under a third name.
NameSegments ==
    {<<"110020FF0001">>, <<"RODOS", "110020FF0001">>,
     <<"A1">>, <<"MY", "ST", "A1">>, <<"X", "A1">>}
NameLeaves == [device : NameSegments, serie : {"Temperature", "Humidity"}]

\* The lists of at most n of the given leaves.
RECURSIVE ListingsOf(_, _)
ListingsOf(leaves, n) ==
    IF n = 0 THEN {<<>>}
    ELSE LET shorter == ListingsOf(leaves, n - 1)
         IN  shorter \cup {Append(xs, leaf) : xs \in {ys \in shorter : Len(ys) = n - 1},
                                              leaf \in leaves}

InitNames ==
    /\ metrics \in {xs \in ListingsOf(NameLeaves, MaxMetrics) : Cardinality(ToSet(xs)) = Len(xs)}
    /\ backend = <<>>
    /\ req = <<>>
    /\ op = "idle"
    /\ resp = <<>>
    /\ outage = {}
    /\ socket = None
    /\ topic_prefix = <<>>

SpecNames == InitNames /\ [][NextDesc]_vars

---------------------------------------------------------------------------
(* The series handlers from the request on: parameters, station, channel, date *)

\* The request parameter is the JSON object of the URL, a dict that may lack
\* keys.  "uid" is a device segment (its "_"-separated tokens), "serie" a
\* channel ID as text, "date" a date text (its "-"-separated tokens).

MaxListed == 2      \* leaf metrics in the namespace of the request handlers

\* The response of a handler: jsonify(result) with status 200, or the answer
\* of the Exception error handler with status 500.
Ok(result) == [status |-> 200, body |-> result]
ServerError == [status |-> 500, body |-> SetItem(EmptyDict, "error", "Internal Server Error")]

\* device_name_uid.split("_", 1)[1] if "_" in device_name_uid else device_name_uid:
\* the text after the first "_", as the list of its "_"-separated tokens.
RequestUid(device_name_uid) ==
    IF Len(device_name_uid) >= 2 THEN Tail(device_name_uid) ELSE device_name_uid

\* uid in desc_response (a key of desc_response never has a "_")
KnownUid(desc_response, uid) == Len(uid) = 1 /\ Has(desc_response, uid[1])

\* Faulty variant of SerieNameOf: an ID that matches no channel falls back to
\* the first channel of the station.
RECURSIVE SerieNameOf_FirstOnMiss(_, _, _)
SerieNameOf_FirstOnMiss(serie, serie_id, i) ==
    IF i > Len(serie.keys)
    THEN (IF serie.keys = <<>> THEN <<>> ELSE <<serie.keys[1]>>)
    ELSE IF ToString(serie.val[serie.keys[i]]) = serie_id THEN <<serie.keys[i]>>
         ELSE SerieNameOf_FirstOnMiss(serie, serie_id, i + 1)

\* for s_name, s_id in serie.items(): if str(s_id) == str(serie_id): ... break
\* The channel name as <<s_name>>, or <<>> when serie_name stays None.
RECURSIVE SerieNameOf(_, _, _)
SerieNameOf(serie, serie_id, i) ==
    IF i > Len(serie.keys) THEN <<>>
    ELSE IF ToString(serie.val[serie.keys[i]]) = serie_id THEN <<serie.keys[i]>>
         ELSE SerieNameOf(serie, serie_id, i + 1)

\* The station and channel of a request, as <<[device_name_uid, serie_name]>>,
\* or <<>> when the handler returns jsonify({}) before the date is parsed.
Resolve(param) ==
    LET uid == RequestUid(param["uid"])
        desc_response == get_stations_desc
    IN  IF ~KnownUid(desc_response, uid) THEN <<>>
        ELSE LET station == desc_response.val[uid[1]]
                 serie_name == SerieNameOf(station.serie, param["serie"], 1)
             IN  IF serie_name = <<>> THEN <<>>
                 ELSE <<[device_name_uid |-> Append(station.name, uid[1]),
                         serie_name |-> serie_name[1]]>>

\* int(text) of a date token: <<n>>, or <<>> when int raises ValueError.
IntOf(token) ==
    LET N == {n \in (0 .. 31) \cup (1970 .. 1970 + MaxTs) :
                 token = ToString(n) \/ token = "0" \o ToString(n)}
    IN  IF N = {} THEN <<>> ELSE <<CHOOSE n \in N : TRUE>>

\* datetime.strptime(date_str, "%Y-%m-%d"): <<[year, month, day]>>, or <<>>
\* when it raises.
ParseDay(date_str) ==
    IF Len(date_str) # 3 THEN <<>>
    ELSE LET y == IntOf(date_str[1])
             m == IntOf(date_str[2])
             d == IntOf(date_str[3])
         IN  IF y = <<>> \/ m = <<>> \/ d = <<>> THEN <<>>
             ELSE IF m[1] \in 1 .. MonthsPerYear /\ d[1] \in 1 .. DaysPerMonth
                  THEN <<[year |-> y[1], month |-> m[1], day |-> d[1]]>>
                  ELSE <<>>

\* year, month = date_str.split("-"); datetime(int(year), int(month), 1)
ParseMonth(date_str) ==
    IF Len(date_str) # 2 THEN <<>>
    ELSE LET y == IntOf(date_str[1])
             m == IntOf(date_str[2])
         IN  IF y = <<>> \/ m = <<>> THEN <<>>
             ELSE IF m[1] \in 1 .. MonthsPerYear
                  THEN <<[year |-> y[1], month |-> m[1]]>>
                  ELSE <<>>

\* year = int(date_str); datetime(year, 1, 1)
ParseYear(date_str) ==
    IF Len(date_str) # 1 THEN <<>>
    ELSE LET y == IntOf(date_str[1])
         IN  IF y = <<>> THEN <<>> ELSE <<[year |-> y[1]]>>

\* param["uid"], param["serie"], param["date"] raise KeyError on a missing key.
HasParams(param) == {"uid", "serie", "date"} \subseteq DOMAIN param

\* station_dailyserie(uid_serie_date)
station_dailyserie(param) ==
    IF ~HasParams(param) THEN ServerError
    ELSE IF Resolve(param) = <<>> THEN Ok(EmptyDict)
    ELSE IF ParseDay(param["date"]) = <<>> THEN Ok(EmptyDict)
    ELSE Ok(DailyResult(query_graphite("min"), query_graphite("max"),
                        query_graphite("avg")))

\* station_monthlyserie(uid_serie_date)
station_monthlyserie(param) ==
    IF ~HasParams(param) THEN ServerError
    ELSE IF Resolve(param) = <<>> THEN Ok(EmptyDict)
    ELSE IF ParseMonth(param["date"]) = <<>> THEN Ok(EmptyDict)
    ELSE LET date_obj == ParseMonth(param["date"])[1]
         IN  Ok(MonthlyResult(query_graphite("min"), query_graphite("max"),
                              query_graphite("avg"),
                              date_obj.year - 1970, date_obj.month))

\* station_yearlyserie(uid_serie_date)
station_yearlyserie(param) ==
    IF ~HasParams(param) THEN ServerError
    ELSE IF Resolve(param) = <<>> THEN Ok(EmptyDict)
    ELSE IF ParseYear(param["date"]) = <<>> THEN Ok(EmptyDict)
    ELSE Ok(YearlyResult(query_graphite("min"), query_graphite("max"),
                         query_graphite("avg")))

\* The requests a client may send.
RequestSegments ==
    {<<"RODOS", "110020FF0001">>, <<"MY", "ST", "A1">>, <<"A1">>, <<"NO", "B2">>}
RequestDates ==
    {<<"1970">>, <<"1970", "02">>, <<"1970", "02", "02">>, <<"1970", "xx">>}
FullParams ==
    {Put(Put(Put(<<>>, "uid", u), "serie", c), "date", d) :
        u \in RequestSegments, c \in {"1", "2", "9"}, d \in RequestDates}
Params ==
    FullParams
    \cup {Del(Put(Put(Put(<<>>, "uid", <<"A1">>), "serie", "1"), "date", <<"1970">>), k) :
             k \in {"uid", "serie", "date"}}

DailyRequest ==
    /\ op = "idle"
    /\ \E param \in Params :
        /\ req' = param
        /\ resp' = station_dailyserie(param)
    /\ op' = "daily"
    /\ UNCHANGED <<metrics, backend, outage, socket, topic_prefix>>

MonthlyRequest ==
    /\ op = "idle"
    /\ \E param \in Params :
        /\ req' = param
        /\ resp' = station_monthlyserie(param)
    /\ op' = "monthly"
    /\ UNCHANGED <<metrics, backend, outage, socket, topic_prefix>>

YearlyRequest ==
    /\ op = "idle"
    /\ \E param \in Params :
        /\ req' = param
        /\ resp' = station_yearlyserie(param)
    /\ op' = "yearly"
    /\ UNCHANGED <<metrics, backend, outage, socket, topic_prefix>>

\* The namespace of the request handlers and the render answers for the
\* statistics of the requested channel: at most one point per statistic, all
\* at the first timestamp of the window; a statistic without a point may have
\* no series at all.
RequestLeaves ==
    [device : {<<"RODOS", "110020FF0001">>, <<"MY", "ST", "A1">>, <<"A1">>},
     serie : {"Temperature"}]
    \cup {[device |-> <<"RODOS", "110020FF0001">>, serie |-> "Humidity"]}

InitRequest ==
    /\ metrics \in {xs \in ListingsOf(RequestLeaves, MaxListed) :
                       Cardinality(ToSet(xs)) = Len(xs)}
    /\ \E S \in SUBSET (Stats \X {FirstTs}) :
       \E failed \in {{}, {st \in Stats : <<st, FirstTs>> \notin S}} :
           backend = [st \in Stats |->
                         Answer(st, S, [x \in S |-> RatOfInt(MaxVal)], failed)]
    /\ outage \in SUBSET {"find", "render"}
    /\ req = <<>>
    /\ op = "idle"
    /\ resp = <<>>
    /\ socket = None
    /\ topic_prefix = <<>>

NextRequest == StationsDesc \/ DailyRequest \/ MonthlyRequest \/ YearlyRequest

SpecRequest == InitRequest /\ [][NextRequest]_vars

---------------------------------------------------------------------------
(* stations_datatree: the days with data of every station and channel *)

\* The current time, datetime.now(), is an input of the request and is kept
\* in req.now.  The render answer of a channel is backend[target] for the
\* target <<device_name_uid, serie_name>> of its summarized avg series.
\* dates_by_year, a dict year -> month -> set of days, is the set of its
\* <<year, month, day>> entries; the tree of a channel is the record of its
\* "years" list and of its year entries, each the record of its "months"
\* list and of its month entries.

\* strftime("%Y") and strftime("%m")
StrfYear(ts) == ToString(1970 + YearOf(ts))
StrfMonth(ts) == IF MonthOf(ts) < 10 THEN "0" \o ToString(MonthOf(ts)) ELSE ToString(MonthOf(ts))

\* The code points of the digits of a natural number.
RECURSIVE Digits(_)
Digits(n) == IF n < 10 THEN <<48 + n>> ELSE Append(Digits(n \div 10), 48 + (n % 10))

\* The code points of a string that strftime("%Y"), ("%m") or ("%d") gave.
DateCodePoints(s) ==
    LET Numbers == (1 .. 31) \cup (1970 .. 1970 + YearOf(FirstTs + MaxTs + TicksPerDay))
        n == CHOOSE k \in Numbers : s = ToString(k) \/ s = "0" \o ToString(k)
    IN  IF s = ToString(n) THEN Digits(n) ELSE <<48>> \o Digits(n)

\* Faulty variant of DateLess: the order is reversed.
DateLess_Reversed(a, b) == SeqLess(DateCodePoints(b), DateCodePoints(a))

\* a < b for two such strings, as Python compares them.
DateLess(a, b) == SeqLess(DateCodePoints(a), DateCodePoints(b))

\* sorted(dates_by_year.keys()), sorted(dates_by_year[year].keys()),
\* sorted(list(dates_by_year[year][month]))
RECURSIVE SortedDates(_)
SortedDates(S) ==
    IF S = {} THEN <<>>
    ELSE LET least == CHOOSE x \in S : \A y \in S \ {x} : DateLess(x, y)
         IN  <<least>> \o SortedDates(S \ {least})

\* The loop over the datapoints: every non-null point records its date.
RECURSIVE TreeDates(_, _, _)
TreeDates(dates_by_year, datapoints, i) ==
    IF i > Len(datapoints) THEN dates_by_year
    ELSE LET value == datapoints[i][1]
             timestamp == datapoints[i][2]
             date == <<StrfYear(timestamp), StrfMonth(timestamp), StrfDay(timestamp)>>
         IN  TreeDates(IF value # None THEN dates_by_year \cup {date} ELSE dates_by_year,
                       datapoints, i + 1)

\* Faulty variant of AddToday: a last point exactly 24 hours old still counts.
AddToday_Inclusive(dates_by_year, datapoints, now) ==
    IF datapoints # <<>> /\ now - datapoints[Len(datapoints)][2] <= TicksPerDay
    THEN dates_by_year \cup {<<StrfYear(now), StrfMonth(now), StrfDay(now)>>}
    ELSE dates_by_year

\* if (now_ts - last_timestamp) < 86400: add today's date
AddToday(dates_by_year, datapoints, now) ==
    IF datapoints # <<>> /\ now - datapoints[Len(datapoints)][2] < TicksPerDay
    THEN dates_by_year \cup {<<StrfYear(now), StrfMonth(now), StrfDay(now)>>}
    ELSE dates_by_year

\* The conversion of dates_by_year to the tree of the channel.
TreeOfDates(dates_by_year) ==
    LET years == {d[1] : d \in dates_by_year}
        months(year) == {d[2] : d \in {e \in dates_by_year : e[1] = year}}
        days(year, month) ==
            {d[3] : d \in {e \in dates_by_year : e[1] = year /\ e[2] = month}}
    IN  [years |-> SortedDates(years),
         year |-> [y \in years |->
                    [months |-> SortedDates(months(y)),
                     month |-> [m \in months(y) |-> SortedDates(days(y, m))]]]]

\* query_graphite(target, from_time="-7d")
TreeQuery(target) == IF target \in DOMAIN backend THEN query_graphite(target) ELSE <<>>

\* The tree of one channel of a station.
ChannelTree(device_name_uid, serie_name, now) ==
    LET data == TreeQuery(<<device_name_uid, serie_name>>)
        datapoints == Datapoints(data)
    IN  TreeOfDates(AddToday(TreeDates({}, datapoints, 1), datapoints, now))

\* The body of the response: uid -> channel name -> tree.
TreeResult(desc_response, now) ==
    [keys |-> desc_response.keys,
     val |-> [uid \in DOMAIN desc_response.val |->
               LET station_info == desc_response.val[uid]
                   device_name_uid == Append(station_info.name, uid)
               IN  [keys |-> station_info.serie.keys,
                    val |-> [serie_name \in DOMAIN station_info.serie.val |->
                              ChannelTree(device_name_uid, serie_name, now)]]]]

\* The times of the points of a lookback window and of the requests.
TreeTimestamps == (FirstTs - MaxTs) .. (FirstTs + MaxTs - 1)
TreeNows == (FirstTs + MaxTs - 1) .. (FirstTs + MaxTs - 1 + TicksPerDay)

\* stations_datatree: GET /restq/stations/datatree
StationsDatatree ==
    /\ op = "idle"
    /\ \E now \in TreeNows :
        /\ req' = [now |-> now]
        /\ resp' = TreeResult(get_stations_desc, now)
    /\ op' = "datatree"
    /\ UNCHANGED <<metrics, backend, outage, socket, topic_prefix>>

\* The namespace of one station with up to two channels, and the answers to
\* the summarized avg queries of its channels.
TreeLeaves == [device : {<<"RODOS", "110020FF0001">>}, serie : {"Temperature", "Humidity"}]
TreeValues == {RatOfInt(MaxVal), None}

RECURSIVE TreePoints(_, _, _, _)
TreePoints(target, S, f, ts) ==
    IF ts > FirstTs + MaxTs - 1 THEN <<>>
    ELSE IF <<target, ts>> \in S
         THEN <<(<<f[<<target, ts>>], ts>>)>> \o TreePoints(target, S, f, ts + 1)
         ELSE TreePoints(target, S, f, ts + 1)

InitTree ==
    /\ \E L \in SUBSET TreeLeaves :
        /\ metrics \in {xs \in Listings(Cardinality(TreeLeaves)) :
                           ToSet(xs) = L /\ Len(xs) = Cardinality(L)}
        /\ LET targets == {<<leaf.device, leaf.serie>> : leaf \in L}
           IN  \E S \in SUBSET (targets \X TreeTimestamps) :
                   /\ Cardinality(S) <= MaxPoints
                   /\ \E f \in [S -> TreeValues] :
                      \E failed \in SUBSET {t \in targets :
                                              \A ts \in TreeTimestamps : <<t, ts>> \notin S} :
                          backend = [t \in targets |->
                                        IF t \in failed THEN <<>>
                                        ELSE <<[target |-> t,
                                                datapoints |->
                                                    TreePoints(t, S, f, FirstTs - MaxTs)]>>]
    /\ req = <<>>
    /\ op = "idle"
    /\ resp = <<>>
    /\ outage = {}
    /\ socket = None
    /\ topic_prefix = <<>>

NextTree == StationsDatatree

SpecTree == InitTree /\ [][NextTree]_vars

---------------------------------------------------------------------------
(* The MQTT bridge (mqtt-bridge/bridge.py): legacy binary messages *)

\* In the bridge, backend is the queue of the messages the broker has still
\* to deliver, req the list of the messages delivered, resp the list of the
\* outcomes of on_message, one per message delivered, and metrics the list of
\* the send_metric calls made since the start.  A message is its topic and
\* its payload; the payload of a message of the legacy topic is a list of
\* bytes, beside which the message carries the samples its sender packed,
\* which the bridge never reads; the payload of any other message is given
\* by the JSON value its text denotes.  An integer of more than 31
\* bits is the list of its four 16-bit limbs, least significant first, the
\* last one signed and unbounded.

MaxRecords == 2
version1_len == 37
\* A topic is the list of its "/"-separated levels: "/wlabdb/bin".
legacy_bin_topic == <<"", "wlabdb", "bin">>

\* MQTTBridge.LEGACY_DEVICES
MQTTBridge_LEGACY_DEVICES ==
    [uid \in {"110020FF0001", "31AB0F224FDC", "48E729C88B0C", "A020A61259E8", "F1AB0F224FDC"} |->
        CASE uid = "110020FF0001" -> "Rodos"
          [] uid = "31AB0F224FDC" -> "Zlocien"
          [] uid = "48E729C88B0C" -> "Makro"
          [] uid = "A020A61259E8" -> "Krakers"
          [] uid = "F1AB0F224FDC" -> "Unknown"]

\* str.upper() of a device name; a uid of hex digits has no lower-case letter.
Upper(name) ==
    CASE name = "Rodos" -> "RODOS"
      [] name = "Zlocien" -> "ZLOCIEN"
      [] name = "Makro" -> "MAKRO"
      [] name = "Krakers" -> "KRAKERS"
      [] name = "Unknown" -> "UNKNOWN"
      [] OTHER -> name

\* "%02X" % byte
HexDigit(n) ==
    CASE n < 10 -> ToString(n)
      [] n = 10 -> "A" [] n = 11 -> "B" [] n = 12 -> "C"
      [] n = 13 -> "D" [] n = 14 -> "E" [] n = 15 -> "F"
Hex(byte) == HexDigit(byte \div 16) \o HexDigit(byte % 16)

\* struct.unpack('<H'), ('<h') and ('<q') of the bytes lo, hi, ...
U16(lo, hi) == lo + 256 * hi

\* Faulty variant of S16: the sign bit is read as a value bit.
S16_Unsigned(lo, hi) == U16(lo, hi)

S16(lo, hi) == IF U16(lo, hi) >= 32768 THEN U16(lo, hi) - 65536 ELSE U16(lo, hi)
S64(b) == <<U16(b[1], b[2]), U16(b[3], b[4]), U16(b[5], b[6]), S16(b[7], b[8])>>

\* ts + offset for a 64-bit ts and a 16-bit offset (Python integers do not
\* overflow).
BigAdd(ts, offset) ==
    LET s1 == ts[1] + offset
        s2 == ts[2] + (s1 \div 65536)
        s3 == ts[3] + (s2 \div 65536)
    IN  <<s1 % 65536, s2 % 65536, s3 % 65536, ts[4] + (s3 \div 65536)>>

\* packet[i] and packet[i:j] for a packet whose first byte is packet[0]
Byte(packet, i) == packet[i + 1]
Bytes(packet, i, j) == SubSeq(packet, i + 1, j)

\* Faulty variant of UidOf: the bytes are taken in the stored order.
UidOf_StoredOrder(packet) ==
    Hex(Byte(packet, 1)) \o Hex(Byte(packet, 2)) \o Hex(Byte(packet, 3))
        \o Hex(Byte(packet, 4)) \o Hex(Byte(packet, 5)) \o Hex(Byte(packet, 6))

\* uid = "%02X%02X%02X%02X%02X%02X" % (packet[6], ..., packet[1])
UidOf(packet) ==
    Hex(Byte(packet, 6)) \o Hex(Byte(packet, 5)) \o Hex(Byte(packet, 4))
        \o Hex(Byte(packet, 3)) \o Hex(Byte(packet, 2)) \o Hex(Byte(packet, 1))

\* A call send_metric(metric_path, value, timestamp).
send_metric(metric_path, value, timestamp) ==
    [metric_path |-> metric_path, value |-> value, timestamp |-> timestamp]

\* The six send_metric calls of one 37-byte packet.
RecordWrites(packet) ==
    LET uid == UidOf(packet)
        ts == S64(Bytes(packet, 7, 15))
        temp_avg == Rat(S16(Byte(packet, 17), Byte(packet, 18)), 10)
        temp_max == Rat(S16(Byte(packet, 19), Byte(packet, 20)), 10)
        temp_min == Rat(S16(Byte(packet, 21), Byte(packet, 22)), 10)
        temp_max_ts_offset == S16(Byte(packet, 23), Byte(packet, 24))
        temp_min_ts_offset == S16(Byte(packet, 25), Byte(packet, 26))
        hum_avg == Byte(packet, 28)
        hum_max == Byte(packet, 29)
        hum_min == Byte(packet, 30)
        hum_max_ts_offset == S16(Byte(packet, 31), Byte(packet, 32))
        hum_min_ts_offset == S16(Byte(packet, 33), Byte(packet, 34))
        device_name == Get(MQTTBridge_LEGACY_DEVICES, uid, uid)
        sensor_key == Upper(device_name) \o "_" \o uid
        base_path == "monitoring_data." \o sensor_key
    IN  << send_metric(base_path \o ".Temperature.min", temp_min, BigAdd(ts, temp_min_ts_offset)),
           send_metric(base_path \o ".Temperature.max", temp_max, BigAdd(ts, temp_max_ts_offset)),
           send_metric(base_path \o ".Temperature.avg", temp_avg, ts),
           send_metric(base_path \o ".Humidity.min", RatOfInt(hum_min), BigAdd(ts, hum_min_ts_offset)),
           send_metric(base_path \o ".Humidity.max", RatOfInt(hum_max), BigAdd(ts, hum_max_ts_offset)),
           send_metric(base_path \o ".Humidity.avg", RatOfInt(hum_avg), ts) >>

\* Faulty variant of DecodeSamples: the sample count is not looked at, every
\* complete packet is decoded.
RECURSIVE DecodeSamples_IgnoreCount(_, _, _)
DecodeSamples_IgnoreCount(payload, offset, samples_n) ==
    IF offset + version1_len > Len(payload) THEN <<>>
    ELSE RecordWrites(Bytes(payload, offset, offset + version1_len))
            \o DecodeSamples_IgnoreCount(payload, offset + version1_len, samples_n - 1)

\* for _ in range(samples_n): if offset + version1_len > len(payload): break ...
RECURSIVE DecodeSamples(_, _, _)
DecodeSamples(payload, offset, samples_n) ==
    IF samples_n = 0 \/ offset + version1_len > Len(payload) THEN <<>>
    ELSE RecordWrites(Bytes(payload, offset, offset + version1_len))
            \o DecodeSamples(payload, offset + version1_len, samples_n - 1)

\* parse_legacy_binary: the send_metric calls it makes.  payload[0] of an
\* empty payload raises IndexError, which the except clause of the function
\* catches and logs.
parse_legacy_binary(payload) ==
    IF payload = <<>> THEN <<>>
    ELSE DecodeSamples(payload, 0, 1 + (Byte(payload, 0) \div 32))

\* JSON values: what json.loads(payload) gives for the text of a payload.
\* NotJson stands for bytes that are no UTF-8 text or no JSON text.
JNum(r) == [type |-> "number", num |-> r]
JStr(s) == [type |-> "string", str |-> s]
JObj(keys, val) == [type |-> "object", keys |-> keys, val |-> val]
NotJson == [type |-> "invalid"]

\* The elements of a list that satisfy a test, e.g. [p for p in xs if p].
NonEmptyLevels(levels) == SelectSeq(levels, LAMBDA p : p # "")

\* topic.replace(self.topic_prefix, '', 1), for a prefix that occurs in the
\* topic as whole levels or not at all: the levels of the first occurrence
\* are cut out, and an empty level stays between the "/" around them.
ReplaceFirst(topic, prefix) ==
    LET n == Len(prefix)
        at == {i \in 1 .. (Len(topic) - n + 1) : SubSeq(topic, i, i + n - 1) = prefix}
    IN  IF at = {} THEN topic
        ELSE LET i == CHOOSE k \in at : \A other \in at : k <= other
             IN  SubSeq(topic, 1, i - 1) \o <<"">> \o SubSeq(topic, i + n, Len(topic))

\* text.lstrip('/'): the leading empty levels go ("//a/b" is "a/b").
RECURSIVE LStrip(_)
LStrip(levels) ==
    IF Len(levels) >= 2 /\ levels[1] = "" THEN LStrip(Tail(levels)) ELSE levels

\* self.topic_prefix.replace('/', '.'): the levels joined by dots.
RECURSIVE JoinDots(_)
JoinDots(levels) ==
    IF levels = <<>> THEN ""
    ELSE IF Len(levels) = 1 THEN levels[1]
    ELSE levels[1] \o "." \o JoinDots(Tail(levels))

\* text.replace(' ', '_') and text.replace(' ', '_').lower(), on the names of
\* the model.
ReplaceSpaces(text) == IF text = "Wind Speed" THEN "Wind_Speed" ELSE text
FriendlyName(text) == IF text = "Bedroom Sensor" THEN "bedroom_sensor" ELSE text

\* sensor_uid: the level before a final 'data', else the first level.
SensorUid(topic) ==
    LET topic_clean == IF topic_prefix # <<>>
                       THEN LStrip(ReplaceFirst(topic, topic_prefix))
                       ELSE topic
        parts == NonEmptyLevels(topic_clean)
    IN  IF Len(parts) >= 2 /\ parts[Len(parts)] = "data" THEN parts[Len(parts) - 1]
        ELSE IF Len(parts) >= 1 THEN parts[1]
        ELSE "unknown"

\* base_path
BasePath(name) ==
    IF topic_prefix # <<>> THEN JoinDots(topic_prefix) \o "." \o name ELSE name

\* float(value): <<x>>, or <<>> when float raises (the strings of the model
\* are no numerals).
FloatOfJson(value) == IF value.type = "number" THEN <<value.num>> ELSE <<>>

StatOrder == <<"min", "max", "avg">>

\* for stat_type in ['min', 'max', 'avg']: if stat_type in sensor_data: ...
\* The send_metric calls made, and whether float() raised (which ends
\* parse_message).
RECURSIVE StatWrites(_, _, _, _, _)
StatWrites(base_path, sensor_key, sensor_data, timestamp, i) ==
    IF i > Len(StatOrder) THEN [writes |-> <<>>, raised |-> FALSE]
    ELSE LET stat_type == StatOrder[i]
             rest == StatWrites(base_path, sensor_key, sensor_data, timestamp, i + 1)
         IN  IF stat_type \notin DOMAIN sensor_data.val THEN rest
             ELSE LET value == FloatOfJson(sensor_data.val[stat_type])
                      stat_ts == IF (stat_type \o "_ts") \in DOMAIN sensor_data.val
                                 THEN sensor_data.val[stat_type \o "_ts"].num
                                 ELSE timestamp
                      metric_path == base_path \o "." \o sensor_key \o "." \o stat_type
                  IN  IF value = <<>> THEN [writes |-> <<>>, raised |-> TRUE]
                      ELSE [writes |-> <<send_metric(metric_path, value[1], stat_ts)>>
                                           \o rest.writes,
                            raised |-> rest.raised]

\* The body of the loop over data.items() for one sensor type: a value that
\* is not a dict is skipped ("continue"), so the later branch for a plain
\* number is never reached; a dict with one of min, max, avg gives one
\* send_metric call per statistic present, and the same again under the
\* friendly name when the message has a sensor_name.
SensorWrites(sensor_uid, friendly, sensor_type, sensor_data, now) ==
    IF sensor_data.type # "object" THEN [writes |-> <<>>, raised |-> FALSE]
    ELSE IF DOMAIN sensor_data.val \cap {"min", "max", "avg"} = {}
    THEN [writes |-> <<>>, raised |-> FALSE]
    ELSE LET timestamp == IF "ts" \in DOMAIN sensor_data.val
                          THEN sensor_data.val["ts"].num ELSE RatOfInt(now)
             sensor_key == ReplaceSpaces(sensor_type)
             by_uid == StatWrites(BasePath(sensor_uid), sensor_key, sensor_data, timestamp, 1)
             by_name == StatWrites(BasePath(friendly[1]), sensor_key, sensor_data, timestamp, 1)
         IN  IF by_uid.raised \/ friendly = <<>> THEN by_uid
             ELSE [writes |-> by_uid.writes \o by_name.writes, raised |-> by_name.raised]

\* for sensor_type, sensor_data in data.items(): ..., until an exception
RECURSIVE DataWrites(_, _, _, _, _)
DataWrites(sensor_uid, friendly, data, now, i) ==
    IF i > Len(data.keys) THEN [writes |-> <<>>, raised |-> FALSE]
    ELSE LET sensor_type == data.keys[i]
             first == SensorWrites(sensor_uid, friendly, sensor_type,
                                   data.val[sensor_type], now)
             rest == DataWrites(sensor_uid, friendly, data, now, i + 1)
         IN  IF sensor_type = "sensor_name" THEN rest
             ELSE IF first.raised THEN first
             ELSE [writes |-> first.writes \o rest.writes, raised |-> rest.raised]

\* parse_message(topic, payload) at time now: the send_metric calls it makes
\* and whether an exception leaves it.  Text that is no JSON gives
\* JSONDecodeError, which is caught: (None, None) is returned.  A JSON value
\* that is not an object makes the function return None, which on_message
\* fails to unpack.  A sensor_name that is not a string has no replace().
parse_message(topic, payload, now) ==
    IF payload.type = "invalid" THEN [writes |-> <<>>, raised |-> FALSE]
    ELSE IF payload.type # "object" THEN [writes |-> <<>>, raised |-> TRUE]
    ELSE IF "sensor_name" \in DOMAIN payload.val /\ payload.val["sensor_name"].type # "string"
    THEN [writes |-> <<>>, raised |-> TRUE]
    ELSE LET friendly == IF "sensor_name" \in DOMAIN payload.val
                         THEN <<FriendlyName(payload.val["sensor_name"].str)>>
                         ELSE <<>>
         IN  DataWrites(SensorUid(topic), friendly, payload, now, 1)

\* Faulty variant of on_message: the return after parse_legacy_binary is
\* missing, the payload (bytes that are no JSON text) goes on to the JSON
\* parser.
on_message_NoReturn(msg) ==
    IF msg.topic = legacy_bin_topic
    THEN LET parsed == parse_message(msg.topic, NotJson, msg.time)
         IN  [parsers |-> <<"parse_legacy_binary", "parse_message">>,
              writes |-> parse_legacy_binary(msg.payload) \o parsed.writes,
              raised |-> FALSE,
              logged |-> parsed.raised]
    ELSE LET parsed == parse_message(msg.topic, msg.payload, msg.time)
         IN  [parsers |-> <<"parse_message">>,
              writes |-> parsed.writes,
              raised |-> FALSE,
              logged |-> parsed.raised]

\* on_message: the parsers the payload is handed to, the send_metric calls
\* made, whether an exception leaves the callback (the whole body is inside
\* try / except Exception) and whether one was caught and logged there.
\* parse_message never returns a metric for on_message to send.
on_message(msg) ==
    IF msg.topic = legacy_bin_topic
    THEN [parsers |-> <<"parse_legacy_binary">>,
          writes |-> parse_legacy_binary(msg.payload),
          raised |-> FALSE,
          logged |-> FALSE]
    ELSE LET parsed == parse_message(msg.topic, msg.payload, msg.time)
         IN  [parsers |-> <<"parse_message">>,
              writes |-> parsed.writes,
              raised |-> FALSE,
              logged |-> parsed.raised]

\* The MQTT client delivers the next message to on_message.
OnMessage ==
    /\ op \in {"idle", "bridge"}
    /\ backend # <<>>
    /\ LET msg == Head(backend)
           outcome == on_message(msg)
       IN  /\ req' = Append(req, msg)
           /\ resp' = Append(resp, outcome)
           /\ metrics' = metrics \o outcome.writes
           /\ op' = IF outcome.raised THEN "crashed" ELSE "bridge"
    /\ backend' = Tail(backend)
    /\ UNCHANGED <<outage, socket, topic_prefix>>

\* The binary format, from the side of the device: the bytes of a sample.
Enc16(v) == LET u == IF v < 0 THEN v + 65536 ELSE v IN <<u % 256, u \div 256>>
Enc64(ts) == Enc16(ts[1]) \o Enc16(ts[2]) \o Enc16(ts[3]) \o Enc16(ts[4])

RecordBytes(sample) ==
    <<sample.head>>
        \o [i \in 1 .. 6 |-> sample.uid[7 - i]]
        \o Enc64(sample.ts)
        \o Enc16(sample.temp.act) \o Enc16(sample.temp.avg)
        \o Enc16(sample.temp.max) \o Enc16(sample.temp.min)
        \o Enc16(sample.temp.max_ts_offset) \o Enc16(sample.temp.min_ts_offset)
        \o <<sample.hum.act, sample.hum.avg, sample.hum.max, sample.hum.min>>
        \o Enc16(sample.hum.max_ts_offset) \o Enc16(sample.hum.min_ts_offset)
        \o Enc16(sample.battery)

\* The samples a device may pack: the first of a message, and those after it.
Temps ==
    {[act |-> 231, avg |-> 229, max |-> 441, min |-> 129,
      max_ts_offset |-> -40, min_ts_offset |-> -90],
     [act |-> 5, avg |-> -1, max |-> 32767, min |-> -32768,
      max_ts_offset |-> 32767, min_ts_offset |-> 1]}
Hums ==
    {[act |-> 61, avg |-> 60, max |-> 75, min |-> 45,
      max_ts_offset |-> -10, min_ts_offset |-> -32768],
     [act |-> 1, avg |-> 128, max |-> 255, min |-> 0,
      max_ts_offset |-> 256, min_ts_offset |-> 0]}
Samples ==
    [head : {0, 37, 69, 255},
     uid : {<<17, 0, 32, 255, 0, 1>>, <<10, 27, 44, 61, 78, 95>>},
     ts : {<<61696, 25939, 0, 0>>, <<65535, 65535, 0, 0>>, <<2, 0, 0, -32768>>},
     temp : Temps,
     hum : Hums,
     battery : {3300}]
MoreSamples ==
    [head : {224},
     uid : {<<241, 171, 15, 34, 79, 220>>},
     ts : {<<61756, 25939, 0, 0>>},
     temp : Temps,
     hum : {[act |-> 61, avg |-> 60, max |-> 75, min |-> 45,
             max_ts_offset |-> -10, min_ts_offset |-> -32768]},
     battery : {-1}]

\* The lists of at most n samples of MoreSamples.
RECURSIVE SampleLists(_)
SampleLists(n) ==
    IF n = 0 THEN {<<>>}
    ELSE LET shorter == SampleLists(n - 1)
         IN  shorter \cup {Append(xs, x) : xs \in {ys \in shorter : Len(ys) = n - 1},
                                           x \in MoreSamples}

\* The bytes of a list of samples.
RECURSIVE PayloadOf(_)
PayloadOf(samples) ==
    IF samples = <<>> THEN <<>> ELSE RecordBytes(Head(samples)) \o PayloadOf(Tail(samples))

\* The messages of the legacy topic: whole samples followed by nothing, by
\* one byte or by a sample that lacks its last byte; the empty payload.
BinaryMessages ==
    {[topic |-> legacy_bin_topic,
      payload |-> PayloadOf(samples) \o SubSeq(PayloadOf(<<tail>>), 1, cut),
      samples |-> samples,
      time |-> FirstTs] :
        samples \in {<<first>> \o rest : first \in Samples, rest \in SampleLists(MaxRecords - 1)}
                        \cup {<<>>},
        tail \in {CHOOSE x \in MoreSamples : TRUE},
        cut \in {0, 1, version1_len - 1}}

\* The first byte of a JSON text: white space or the start of a JSON value.
JsonStarts == {9, 10, 13, 32, 34, 45, 73, 78, 91, 102, 110, 116, 123} \cup (48 .. 57)

\* The same payloads on a topic of the JSON sensors, when they are no JSON text.
OtherMessages ==
    {[m EXCEPT !.topic = <<"sensors", "S1", "data">>, !.payload = NotJson] :
        m \in {x \in BinaryMessages : x.payload = <<>> \/ x.payload[1] \notin JsonStarts}}

\* A message with one whole sample and nothing else.
WellFormed == {m \in BinaryMessages : Len(m.samples) = 1 /\ Len(m.payload) = version1_len
                                       /\ m.samples[1].head = 0
                                       /\ m.samples[1].ts = <<61696, 25939, 0, 0>>
                                       /\ m.samples[1].hum.act = 61}

InitBridge ==
    /\ \/ backend \in {<<m>> : m \in BinaryMessages}
                        \cup {<<m, w>> : m \in BinaryMessages, w \in WellFormed}
       \/ backend \in {<<m>> : m \in OtherMessages}
    /\ metrics = <<>>
    /\ req = <<>>
    /\ op = "idle"
    /\ resp = <<>>
    /\ outage = {}
    /\ socket = None
    /\ topic_prefix = <<>>

\* JSON messages.  The statistics of the publisher of test_publish.py.
TestStats ==
    [Temperature |-> [min |-> Rat(185, 10), max |-> Rat(243, 10), avg |-> Rat(214, 10)],
     Humidity |-> [min |-> Rat(520, 10), max |-> Rat(685, 10), avg |-> Rat(602, 10)],
     Pressure |-> [min |-> Rat(10102, 10), max |-> Rat(10128, 10), avg |-> Rat(10115, 10)]]

\* The members of a sensor-type object beside its statistics: the unit, and
\* "timestamp" (test_publish.py), "ts" or "min_ts" (docstring of
\* parse_message).
SensorExtras ==
    {[unit |-> JStr("C")],
     [unit |-> JStr("C"), timestamp |-> JNum(RatOfInt(FirstTs))],
     [unit |-> JStr("C"), ts |-> JNum(RatOfInt(FirstTs + 1))],
     [unit |-> JStr("C"), ts |-> JNum(RatOfInt(FirstTs + 1)),
      min_ts |-> JNum(RatOfInt(FirstTs))]}

\* f @@ [k |-> v], with the order of the keys of no account in the model of
\* a sensor-type object (the code looks its members up by name).
WithMember(f, k, v) == [x \in DOMAIN f \cup {k} |-> IF x = k THEN v ELSE f[x]]

RECURSIVE WithStats(_, _, _)
WithStats(f, stats, values) ==
    IF stats = {} THEN f
    ELSE LET k == CHOOSE x \in stats : TRUE
         IN  WithStats(WithMember(f, k, JNum(values[k])), stats \ {k}, values)

\* The sensor-type objects: any of min, max, avg of the publisher's values
\* for the type, or a statistic that is no number.
SensorObjects(type) ==
    {JObj(<<>>, WithStats(extra, stats, TestStats[type])) :
        extra \in SensorExtras, stats \in SUBSET Stats}
    \cup {JObj(<<>>, [unit |-> JStr("C"), min |-> JNum(TestStats[type].min),
                      max |-> JStr("n/a"), avg |-> JNum(TestStats[type].avg)])}

\* The values of a top-level field: a sensor-type object, a plain number
\* ({"Pressure": 1011}), a string.
FieldValues(type) == SensorObjects(type) \cup {JNum(RatOfInt(1011)), JStr("n/a")}

\* The name a field of the payload has for a type of the publisher.
FieldName(type) == IF type = "Humidity" THEN "Wind Speed" ELSE type

\* {"sensor_name": ...}, or nothing
SensorNames == {<<>>, <<JStr("Bedroom Sensor")>>, <<JNum(RatOfInt(7))>>}

\* A JSON object of the given fields, after an optional sensor_name.
Document(name, fields) ==
    LET keys == IF name = <<>> THEN <<>> ELSE <<"sensor_name">>
        all == keys \o [i \in 1 .. Len(fields) |-> fields[i].key]
    IN  JObj(all, [k \in {all[i] : i \in 1 .. Len(all)} |->
                      IF k = "sensor_name" THEN name[1]
                      ELSE LET i == CHOOSE j \in 1 .. Len(fields) : fields[j].key = k
                           IN  fields[i].value])

\* The payload of test_publish.py: three types with three statistics each.
TestPayload ==
    LET object(type) == JObj(<<>>, [timestamp |-> JNum(RatOfInt(FirstTs)),
                                     unit |-> JStr("C"),
                                     min |-> JNum(TestStats[type].min),
                                     max |-> JNum(TestStats[type].max),
                                     avg |-> JNum(TestStats[type].avg)])
    IN  Document(<<>>, <<[key |-> "Temperature", value |-> object("Temperature")],
                         [key |-> "Humidity", value |-> object("Humidity")],
                         [key |-> "Pressure", value |-> object("Pressure")]>>)

\* The payloads: objects of one or two fields, the payload of
\* test_publish.py, JSON values that are no object, and text that is no JSON.
JsonPayloads ==
    UNION {{Document(name, <<[key |-> FieldName(type), value |-> v]>>) :
                name \in SensorNames, v \in FieldValues(type)} :
            type \in {"Temperature", "Humidity"}}
    \cup {Document(name, <<[key |-> "Temperature", value |-> v],
                           [key |-> "Pressure", value |-> w]>>) :
            name \in SensorNames,
            v \in {x \in FieldValues("Temperature") :
                      x.type = "object" => "unit" \in DOMAIN x.val /\ DOMAIN x.val \cap {"timestamp", "min_ts"} = {}},
            w \in {x \in FieldValues("Pressure") :
                      x.type = "object" => DOMAIN x.val \cap {"timestamp", "ts"} = {}}}
    \cup {TestPayload, JNum(RatOfInt(1011)), JStr("n/a"), NotJson}

\* The prefixes "", "home/sensors" and "/home/sensors".
TopicPrefixes == {<<>>, <<"home", "sensors">>, <<"", "home", "sensors">>}

\* The topics a message arrives on: {prefix}/UID/data, which the
\* subscription {prefix}/+/data of the default pattern matches, and, for a
\* pattern set in the configuration, /{prefix}/UID/data and {prefix}/UID/state.
JsonTopics(prefix) ==
    {prefix \o <<"ESP32_TEST01", "data">>,
     <<"">> \o prefix \o <<"ESP32_TEST01", "data">>,
     prefix \o <<"ESP32_TEST01", "state">>}

InitJson ==
    /\ topic_prefix \in TopicPrefixes
    /\ backend \in {<<[topic |-> topic, payload |-> payload, time |-> FirstTs + 2]>> :
                        topic \in JsonTopics(topic_prefix), payload \in JsonPayloads}
    /\ metrics = <<>>
    /\ req = <<>>
    /\ op = "idle"
    /\ resp = <<>>
    /\ outage = {}
    /\ socket = None

NextJson == OnMessage

SpecJson == InitJson /\ [][NextJson]_vars

NextBridge == OnMessage

SpecBridge == InitBridge /\ [][NextBridge]_vars

---------------------------------------------------------------------------
(* GraphiteClient: the write path to the backend *)

\* The number of send_metric calls of a run.
MaxCalls == 4

\* What the network does to a connect: the connection is made, the
\* connection fails (refused, timed out), or no socket can be made.
ConnectOutcomes == {"ok", "refused", "nosocket"}

\* GraphiteClient.connect: self.socket is assigned before
\* self.socket.connect() is called, so a connection that fails leaves a
\* socket object that is not connected in self.socket; when socket.socket()
\* itself raises self.socket keeps its value.
GraphiteClient_connect(self_socket, outcome) ==
    CASE outcome = "ok" -> [socket |-> <<"connected">>, returned |-> TRUE]
      [] outcome = "refused" -> [socket |-> <<"unconnected">>, returned |-> FALSE]
      [] OTHER -> [socket |-> self_socket, returned |-> FALSE]

\* socket.sendall(message) on self.socket: it raises on a socket that is
\* not connected, and on a connected one when the network fails.
SendallRaises(self_socket, network_up) == self_socket # <<"connected">> \/ ~network_up

\* Faulty variant of GraphiteClient_send_metric: a send that fails is tried
\* again on a new connection.
GraphiteClient_send_metric_Retry(self_socket, message, outcome, network_up) ==
    LET connected == IF self_socket = None
                     THEN GraphiteClient_connect(self_socket, outcome)
                     ELSE [socket |-> self_socket, returned |-> TRUE]
        connects == IF self_socket = None THEN <<outcome>> ELSE <<>>
        first == [message |-> message, on |-> connected.socket,
                  raised |-> SendallRaises(connected.socket, network_up)]
    IN  IF ~connected.returned
        THEN [socket |-> connected.socket, connects |-> connects,
              sendall |-> <<>>, returned |-> FALSE]
        ELSE IF ~first.raised
        THEN [socket |-> connected.socket, connects |-> connects,
              sendall |-> <<first>>, returned |-> TRUE]
        ELSE LET again == GraphiteClient_connect(None, outcome)
                 second == [message |-> message, on |-> again.socket,
                            raised |-> SendallRaises(again.socket, TRUE)]
             IN  [socket |-> IF ~again.returned \/ second.raised THEN None ELSE again.socket,
                  connects |-> connects \o <<outcome>>,
                  sendall |-> IF again.returned THEN <<first, second>> ELSE <<first>>,
                  returned |-> again.returned /\ ~second.raised]

\* GraphiteClient.send_metric: self.socket afterwards, the connect calls
\* made, the sendall calls made (the message, the socket it went to, whether
\* it raised) and the value returned.
\*   if not self.socket: if not self.connect(): return False
\*   self.socket.sendall(message); return True
\*   except Exception: self.socket = None; return False
GraphiteClient_send_metric(self_socket, message, outcome, network_up) ==
    LET connected == IF self_socket = None
                     THEN GraphiteClient_connect(self_socket, outcome)
                     ELSE [socket |-> self_socket, returned |-> TRUE]
        connects == IF self_socket = None THEN <<outcome>> ELSE <<>>
        sent == [message |-> message, on |-> connected.socket,
                 raised |-> SendallRaises(connected.socket, network_up)]
    IN  IF ~connected.returned
        THEN [socket |-> connected.socket, connects |-> connects,
              sendall |-> <<>>, returned |-> FALSE]
        ELSE IF sent.raised
        THEN [socket |-> None, connects |-> connects,
              sendall |-> <<sent>>, returned |-> FALSE]
        ELSE [socket |-> connected.socket, connects |-> connects,
              sendall |-> <<sent>>, returned |-> TRUE]

\* MQTTBridge.start: the bridge connects to the backend and returns when the
\* connection fails; the MQTT loop, and with it every send_metric call,
\* starts only after a connection was made.
Start ==
    /\ op = "idle"
    /\ \E outcome \in ConnectOutcomes :
           LET connected == GraphiteClient_connect(socket, outcome)
           IN  /\ socket' = connected.socket
               /\ op' = IF connected.returned THEN "running" ELSE "exited"
    /\ UNCHANGED <<metrics, backend, req, resp, outage, topic_prefix>>

\* The metric paths of the calls.
ClientPaths == {"home.sensors.ESP32_TEST01.Temperature.min",
                "home.sensors.ESP32_TEST01.Temperature.max"}

\* One send_metric call of a message callback.  req lists the calls, resp
\* what each of them did, metrics the sendall calls of the whole run; the
\* clock advances from call to call.
SendMetric ==
    /\ op = "running"
    /\ Len(req) < MaxCalls
    /\ \E metric_path \in ClientPaths, value \in 0 .. 1,
          outcome \in ConnectOutcomes, network_up \in BOOLEAN :
           LET call == send_metric(metric_path, RatOfInt(value), FirstTs + Len(req))
               done == GraphiteClient_send_metric(socket, call, outcome, network_up)
           IN  /\ req' = Append(req, call)
               /\ resp' = Append(resp, [before |-> socket, connects |-> done.connects,
                                        sendall |-> done.sendall, returned |-> done.returned,
                                        after |-> done.socket])
               /\ metrics' = metrics \o done.sendall
               /\ socket' = done.socket
    /\ UNCHANGED <<backend, op, outage, topic_prefix>>

InitClient ==
    /\ metrics = <<>>
    /\ backend = <<>>
    /\ req = <<>>
    /\ op = "idle"
    /\ resp = <<>>
    /\ outage = {}
    /\ socket = None
    /\ topic_prefix = <<>>

NextClient == Start \/ SendMetric

SpecClient == InitClient /\ [][NextClient]_vars

---------------------------------------------------------------------------
(* stations_newest: today's extremes and the current value of every channel *)

\* [(v, ts) for v, ts in data[0].get("datapoints", []) if v is not None]
NonNull(datapoints) == SelectSeq(datapoints, LAMBDA p : p[1] # None)

\* min(values, key=lambda x: x[0]) and max(values, key=lambda x: x[0]) of a
\* non-empty list: the first of the points with the least / greatest value.
RECURSIVE MinPoint(_)
MinPoint(values) ==
    IF Len(values) = 1 THEN values[1]
    ELSE LET m == MinPoint(Tail(values))
         IN  IF RatLess(m[1], values[1][1]) THEN m ELSE values[1]

RECURSIVE MaxPoint(_)
MaxPoint(values) ==
    IF Len(values) = 1 THEN values[1]
    ELSE LET m == MaxPoint(Tail(values))
         IN  IF RatLess(values[1][1], m[1]) THEN m ELSE values[1]

\* Faulty variant of LatestPoint: the first point of the day, not the last.
LatestPoint_First(avg_values) == avg_values[1]

\* latest_val, latest_ts = avg_values[-1]
LatestPoint(avg_values) == avg_values[Len(avg_values)]

\* serie_data of one channel, from the answers to its three queries.
NewestSerie(min_data, max_data, avg_data) ==
    LET min_values == NonNull(Datapoints(min_data))
        max_values == NonNull(Datapoints(max_data))
        avg_values == NonNull(Datapoints(avg_data))
        s1 == IF min_values # <<>>
              THEN Put(Put(<<>>, "f_min", MinPoint(min_values)[1]),
                       "i_min_ts", MinPoint(min_values)[2])
              ELSE <<>>
        s2 == IF max_values # <<>>
              THEN Put(Put(s1, "f_max", MaxPoint(max_values)[1]),
                       "i_max_ts", MaxPoint(max_values)[2])
              ELSE s1
        latest == LatestPoint(avg_values)
        all_avg_vals == [i \in 1 .. Len(avg_values) |-> avg_values[i][1]]
    IN  IF avg_values # <<>>
        THEN Put(Put(Put(Put(Put(Put(s2, "f_act", latest[1]), "i_act_ts", latest[2]),
                             "f_avg", latest[1]), "i_avg_ts", latest[2]),
                     "f_avg_buff", Sum(all_avg_vals)), "i_counter", Len(all_avg_vals))
        ELSE s2

\* station_data of one station: the channels that have a non-empty serie_data.
NewestStation(station_info) ==
    LET serie_data == [serie \in DOMAIN station_info.serie.val |->
                          NewestSerie(query_graphite("min"), query_graphite("max"),
                                      query_graphite("avg"))]
    IN  [keys |-> SelectSeq(station_info.serie.keys,
                            LAMBDA serie : DOMAIN serie_data[serie] # {}),
         val |-> [serie \in {s \in DOMAIN serie_data : DOMAIN serie_data[s] # {}} |->
                     serie_data[serie]]]

\* The body of the response: the stations that have a non-empty station_data.
NewestResult(desc_response) ==
    LET station_data == [uid \in DOMAIN desc_response.val |->
                            NewestStation(desc_response.val[uid])]
    IN  [keys |-> SelectSeq(desc_response.keys,
                            LAMBDA uid : station_data[uid].keys # <<>>),
         val |-> [uid \in {u \in DOMAIN station_data : station_data[u].keys # <<>>} |->
                     station_data[uid]]]

\* stations_newest: GET /restq/stations/newest
StationsNewest ==
    /\ op = "idle"
    /\ resp' = NewestResult(get_stations_desc)
    /\ op' = "newest"
    /\ UNCHANGED <<metrics, backend, req, outage, socket, topic_prefix>>

\* One station with one channel; backend holds the answers to the min, max
\* and avg queries of that channel for today's window.
InitNewest ==
    /\ InitBackend
    /\ metrics = <<[device |-> <<"RODOS", "110020FF0001">>, serie |-> "Temperature"]>>
    /\ req = <<>>
    /\ op = "idle"
    /\ resp = <<>>
    /\ outage = {}
    /\ socket = None
    /\ topic_prefix = <<>>

NextNewest == StationsNewest

SpecNewest == InitNewest /\ [][NextNewest]_vars

---------------------------------------------------------------------------
(* The series handlers invoked again and again on the same render answers *)

MaxRuns == 2        \* invocations in one behaviour

\* Faulty variant of RunHandler: the daily view stamps its "general" record
\* with the time of the invocation.
RunHandler_Stamped(handler, date_obj, now, earlier) ==
    CASE handler = "daily" ->
            LET result == DailyResult(query_graphite("min"), query_graphite("max"),
                                      query_graphite("avg"))
            IN  IF Has(result, "general")
                THEN SetField(result, "general", "i_ts", now)
                ELSE result
      [] handler = "monthly" ->
            MonthlyResult(query_graphite("min"), query_graphite("max"),
                          query_graphite("avg"), date_obj.year, date_obj.month)
      [] handler = "yearly" ->
            YearlyResult(query_graphite("min"), query_graphite("max"),
                         query_graphite("avg"))

\* The body a handler computes at time now, after the earlier invocations:
\* every invocation starts from "result = {}" and reads nothing but the three
\* render answers (and, in the monthly view, the requested month); neither
\* the clock nor anything an earlier invocation left is read.
RunHandler(handler, date_obj, now, earlier) ==
    CASE handler = "daily" ->
            DailyResult(query_graphite("min"), query_graphite("max"),
                        query_graphite("avg"))
      [] handler = "monthly" ->
            MonthlyResult(query_graphite("min"), query_graphite("max"),
                          query_graphite("avg"), date_obj.year, date_obj.month)
      [] handler = "yearly" ->
            YearlyResult(query_graphite("min"), query_graphite("max"),
                         query_graphite("avg"))

\* datetime.now() at an invocation: the end of the window or one tick later.
RunNows == {FirstTs + MaxTs - 1, FirstTs + MaxTs}

\* One more invocation of a series handler, at some time of the clock; the
\* requested month matters to the monthly view only.
Rerun ==
    /\ Len(resp) < MaxRuns
    /\ \E handler \in {"daily", "monthly", "yearly"}, now \in RunNows :
       \E date_obj \in (IF handler = "monthly" THEN Requests ELSE {None}) :
        /\ req' = Append(req, [handler |-> handler, date_obj |-> date_obj, now |-> now])
        /\ resp' = Append(resp, RunHandler(handler, date_obj, now, resp))
        /\ op' = handler
    /\ UNCHANGED <<metrics, backend, outage, socket, topic_prefix>>

\* The render answers: at most two points, none of them null, one per day
\* and statistic.
InitRepeat ==
    /\ \E S \in SUBSET Slots :
        /\ Cardinality(S) <= 2
        /\ \E f \in [S -> Values] :
               backend = [st \in Stats |-> Answer(st, S, f, {})]
    /\ \A st \in Stats : OnePerDay(backend[st])
    /\ metrics = <<>>
    /\ req = <<>>
    /\ op = "idle"
    /\ resp = <<>>
    /\ outage = {}
    /\ socket = None
    /\ topic_prefix = <<>>

NextRepeat == Rerun

SpecRepeat == InitRepeat /\ [][NextRepeat]_vars

---------------------------------------------------------------------------
(* What the backend holds, read off the render answers *)

\* The datapoints of a statistic, [] when the query gave no series.
PointsOf(stat) == IF backend[stat] = <<>> THEN <<>> ELSE backend[stat][1].datapoints

\* The statistic has a non-null point at ts / a null point at ts.
HasSample(stat, ts) ==
    \E i \in 1 .. Len(PointsOf(stat)) :
        PointsOf(stat)[i][2] = ts /\ PointsOf(stat)[i][1] # None

HasNull(stat, ts) ==
    \E i \in 1 .. Len(PointsOf(stat)) :
        PointsOf(stat)[i][2] = ts /\ PointsOf(stat)[i][1] = None

\* The value of the non-null point of the statistic at ts.
Sample(stat, ts) ==
    LET P == PointsOf(stat)
    IN  P[CHOOSE i \in 1 .. Len(P) : P[i][2] = ts /\ P[i][1] # None][1]

PresentAt(ts) == {s \in Stats : HasSample(s, ts)}
SampledTs == {ts \in Timestamps : PresentAt(ts) # {}}

\* The arithmetic mean of the samples present at ts.
RECURSIVE SumSamples(_, _)
SumSamples(S, ts) ==
    IF S = {} THEN RatOfInt(0)
    ELSE LET s == CHOOSE x \in S : TRUE
         IN  RatAdd(Sample(s, ts), SumSamples(S \ {s}, ts))

MeanAt(ts) == RatDivInt(SumSamples(PresentAt(ts), ts), Cardinality(PresentAt(ts)))

StatField(s) == "f_" \o s
TsField(s) == IF s = "avg" THEN "i_act_ts" ELSE "i_" \o s \o "_ts"

\* m is the least / the greatest of the numbers of the non-empty set X.
IsLeast(m, X) == m \in X /\ \A x \in X : RatLeq(m, x)
IsGreatest(m, X) == m \in X /\ \A x \in X : RatLeq(x, m)

\* The sum of a field over the records of the keys K of the response.
RECURSIVE SumField(_, _)
SumField(K, field) ==
    IF K = {} THEN RatOfInt(0)
    ELSE LET k == CHOOSE x \in K : TRUE
         IN  RatAdd(resp.val[k][field], SumField(K \ {k}, field))

TsKeys == (DOMAIN resp.val) \ {"general"}
Complete(rec) ==
    \A f \in {"f_min", "f_max", "f_avg"} : f \in DOMAIN rec /\ rec[f] # None

---------------------------------------------------------------------------
(* Station and channel discovery *)

\* The channel names the namespace holds under a device segment.
ChannelsOf(device) ==
    {metrics[i].serie : i \in {j \in 1 .. Len(metrics) : metrics[j].device = device}}

\* The ID of a channel name among the channel names S of its station.
ExpectedId(name, S) ==
    IF name = "Temperature" THEN 1
    ELSE IF name = "Humidity" THEN 2
    ELSE 3 + Cardinality({other \in S \ {"Temperature", "Humidity"} : StrLess(other, name)})

\* C1: in the answer of get_stations_desc, the channel-ID map of a station
\* has exactly the channel names found under the station's segment;
\* Temperature is 1, Humidity is 2 and every other name is 3 plus the number
\* of other names that sort before it, whatever the listing order.
DescChannelIds ==
    op = "desc" =>
        \A uid \in DOMAIN resp.val :
            LET station == resp.val[uid]
                S == ChannelsOf(Append(station.name, station.uid))
            IN  /\ DOMAIN station.serie.val = S
                /\ \A name \in S : station.serie.val[name] = ExpectedId(name, S)
                /\ \A a, b \in S : a # b => station.serie.val[a] # station.serie.val[b]

\* A station whose channels are listed as Wind, Pressure, Humidity,
\* Temperature and get the IDs 4, 3, 2, 1.
DescChannelIdsWitness ==
    /\ op = "desc"
    /\ \E d \in DeviceSegments :
        /\ [i \in 1 .. Len(metrics) |-> metrics[i].serie]
              = <<"Wind", "Pressure", "Humidity", "Temperature">>
        /\ \A i \in 1 .. Len(metrics) : metrics[i].device = d
        /\ resp.val[d[Len(d)]].serie.val =
              [Temperature |-> 1, Humidity |-> 2, Pressure |-> 3, Wind |-> 4]

---------------------------------------------------------------------------
(* Daily view *)

\* C2: after station_dailyserie, every timestamp at which at least one of the
\* three streams has a non-null point has a record, and that record holds
\* f_min, f_max and f_avg, none of them null.
DailyMergeComplete ==
    op = "daily" =>
        \A ts \in SampledTs :
            /\ ToString(ts) \in DOMAIN resp.val
            /\ Complete(resp.val[ToString(ts)])

\* A daily response for a window with a timestamp sampled by one statistic
\* only and another sampled by exactly two.
DailyMergeCompleteWitness ==
    /\ op = "daily"
    /\ \E t1, t2 \in SampledTs :
        /\ Cardinality(PresentAt(t1)) = 1
        /\ Cardinality(PresentAt(t2)) = 2
        /\ Complete(resp.val[ToString(t1)])
        /\ Complete(resp.val[ToString(t2)])

\* C3: in the record of a sampled timestamp, a statistic that has a sample
\* keeps its value and its timestamp, and a statistic that has none is the
\* arithmetic mean of the samples present, its timestamp field (i_min_ts,
\* i_max_ts, i_act_ts) being the timestamp of the record.
DailyDefaulting ==
    op = "daily" =>
        \A ts \in SampledTs :
            /\ ToString(ts) \in DOMAIN resp.val
            /\ LET rec == resp.val[ToString(ts)]
               IN  \A s \in Stats :
                       /\ {StatField(s), TsField(s)} \subseteq DOMAIN rec
                       /\ rec[TsField(s)] = ts
                       /\ rec[StatField(s)] =
                             IF s \in PresentAt(ts) THEN Sample(s, ts) ELSE MeanAt(ts)

\* A daily response where a record has only its avg sampled and another has
\* two different samples, whose mean is neither of them.
DailyDefaultingWitness ==
    /\ op = "daily"
    /\ \E t1, t2 \in SampledTs :
        /\ PresentAt(t1) = {"avg"}
        /\ resp.val[ToString(t1)]["f_min"] = Sample("avg", t1)
        /\ resp.val[ToString(t1)]["f_max"] = Sample("avg", t1)
        /\ resp.val[ToString(t1)]["i_min_ts"] = t1
        /\ Cardinality(PresentAt(t2)) = 2
        /\ \A s \in PresentAt(t2) : Sample(s, t2) # MeanAt(t2)
        /\ \E s \in Stats \ PresentAt(t2) : resp.val[ToString(t2)][StatField(s)] = MeanAt(t2)

\* C4: the keys of the daily response other than "general" are exactly the
\* timestamps at which some stream has a non-null point (a timestamp where
\* every point is null has no record), each key is listed once, and no
\* record is empty.
DailyKeySet ==
    op = "daily" =>
        /\ TsKeys = {ToString(ts) : ts \in SampledTs}
        /\ {resp.keys[i] : i \in 1 .. Len(resp.keys)} = DOMAIN resp.val
        /\ Len(resp.keys) = Cardinality(DOMAIN resp.val)
        /\ \A k \in DOMAIN resp.val : DOMAIN resp.val[k] # {}

\* A daily response for a window holding a timestamp with only null points
\* beside sampled timestamps of two different streams.
DailyKeySetWitness ==
    /\ op = "daily"
    /\ \E t0 \in Timestamps \ SampledTs : \E s \in Stats : HasNull(s, t0)
    /\ \E t1, t2 \in SampledTs : t1 # t2 /\ PresentAt(t1) # PresentAt(t2)
    /\ Cardinality(TsKeys) = 2

\* C5: the daily response has a "general" record exactly when the window has
\* a non-null point; its f_min is the least f_min and its f_max the greatest
\* f_max of the per-timestamp records, its f_avg_buff the sum of their f_avg
\* and its i_counter their number.
DailyGeneral ==
    op = "daily" =>
        /\ ("general" \in DOMAIN resp.val) <=> (SampledTs # {})
        /\ "general" \in DOMAIN resp.val =>
              LET g == resp.val["general"]
              IN  /\ DOMAIN g = {"f_min", "f_max", "f_avg_buff", "i_counter"}
                  /\ IsLeast(g["f_min"], {resp.val[k]["f_min"] : k \in TsKeys})
                  /\ IsGreatest(g["f_max"], {resp.val[k]["f_max"] : k \in TsKeys})
                  /\ g["f_avg_buff"] = SumField(TsKeys, "f_avg")
                  /\ g["i_counter"] = Cardinality(TsKeys)

\* A daily response with three records whose first f_min is not the least
\* and one of whose f_max is not the greatest, one f_avg being defaulted.
DailyGeneralWitness ==
    /\ op = "daily"
    /\ Cardinality(TsKeys) = 3
    /\ RatLess(resp.val["general"]["f_min"], resp.val[resp.keys[1]]["f_min"])
    /\ \E k \in TsKeys : RatLess(resp.val[k]["f_max"], resp.val["general"]["f_max"])
    /\ \E ts \in SampledTs : "avg" \notin PresentAt(ts)
    /\ resp.val["general"]["i_counter"] = 3

---------------------------------------------------------------------------
(* Yearly view *)

\* The key of the month of a timestamp in the yearly response.
MonthKey(ts) == ToString(MonthOf(ts))

\* The timestamps of a month at which a statistic has a sample.
SampledIn(stat, month) == {ts \in Timestamps : HasSample(stat, ts) /\ MonthKey(ts) = month}

RECURSIVE SumOf(_, _)
SumOf(stat, T) ==
    IF T = {} THEN RatOfInt(0)
    ELSE LET ts == CHOOSE x \in T : TRUE
         IN  RatAdd(Sample(stat, ts), SumOf(stat, T \ {ts}))

\* The position of a timestamp in the order the yearly handler processes the
\* records: those of the min stream first, then those first seen in the max
\* stream, then those seen in the avg stream only, each group by timestamp.
Group(ts) == IF HasSample("min", ts) THEN 0 ELSE IF HasSample("max", ts) THEN 1 ELSE 2
Before(t1, t2) == Group(t1) < Group(t2) \/ (Group(t1) = Group(t2) /\ t1 < t2)

\* ts is the first processed of the timestamps T.
FirstOf(ts, T) == ts \in T /\ \A other \in T \ {ts} : Before(ts, other)

\* C6 (as claimed): in every month bucket of the yearly response whose month
\* has avg samples, f_avg is their arithmetic mean and f_act equals it.
YearlyAverage ==
    op = "yearly" =>
        \A month \in DOMAIN resp.val :
            LET T == SampledIn("avg", month)
            IN  T # {} =>
                  /\ resp.val[month].f_avg = RatDivInt(SumOf("avg", T), Cardinality(T))
                  /\ resp.val[month].f_act = resp.val[month].f_avg

\* C7: in every month bucket of the yearly response, f_min is the least min
\* sample of the month and i_min_ts the timestamp of the first processed
\* record that has it, f_max the greatest max sample and i_max_ts the
\* timestamp of the first processed record that has it; a month without min
\* (max) samples has f_min (f_max) and its timestamp null.
YearlyExtremes ==
    op = "yearly" =>
        \A month \in DOMAIN resp.val :
            LET b == resp.val[month]
                Tmin == SampledIn("min", month)
                Tmax == SampledIn("max", month)
            IN  /\ IF Tmin = {} THEN b.f_min = None /\ b.i_min_ts = None
                   ELSE /\ IsLeast(b.f_min, {Sample("min", ts) : ts \in Tmin})
                        /\ \E ts \in Tmin :
                              /\ b.i_min_ts = <<ts>>
                              /\ FirstOf(ts, {t \in Tmin : Sample("min", t) = b.f_min})
                /\ IF Tmax = {} THEN b.f_max = None /\ b.i_max_ts = None
                   ELSE /\ IsGreatest(b.f_max, {Sample("max", ts) : ts \in Tmax})
                        /\ \E ts \in Tmax :
                              /\ b.i_max_ts = <<ts>>
                              /\ FirstOf(ts, {t \in Tmax : Sample("max", t) = b.f_max})

\* A yearly response with a month whose first processed record has no f_max
\* and whose least min sample is attained by that record and by a later one,
\* the later one carrying the month's max sample.
YearlyExtremesWitness ==
    /\ op = "yearly"
    /\ \E t1, t2 \in Timestamps :
        /\ MonthKey(t1) = MonthKey(t2)
        /\ t1 < t2
        /\ HasSample("min", t1) /\ HasSample("min", t2)
        /\ Sample("min", t1) = Sample("min", t2)
        /\ ~HasSample("max", t1) /\ HasSample("max", t2)
        /\ resp.val[MonthKey(t1)].i_min_ts = <<t1>>
        /\ resp.val[MonthKey(t1)].f_max = Sample("max", t2)
        /\ resp.val[MonthKey(t1)].i_max_ts = <<t2>>

\* C8 (as claimed): every month bucket of the yearly response has non-null
\* f_min, f_max and f_avg.
YearlyBucketsComplete ==
    op = "yearly" => \A month \in DOMAIN resp.val : Complete(resp.val[month])

---------------------------------------------------------------------------
(* Monthly view *)

\* The timestamps of the requested month at which a statistic has a sample.
InRequest(ts) == YearOf(ts) = req.year /\ MonthOf(ts) = req.month
SampledInRequest(stat) == {ts \in Timestamps : HasSample(stat, ts) /\ InRequest(ts)}

\* Those of them that fall on the day of a key of the monthly response.
SampledOn(stat, day_num) == {ts \in SampledInRequest(stat) : StrfDay(ts) = day_num}

\* C9: the keys of the monthly response are the days of the requested month
\* on which a summarized min, a summarized max or a raw avg point has a
\* sample; a day has f_min / i_min_ts exactly when a summarized min sample of
\* the requested month falls on it, and they are its value and timestamp,
\* and likewise f_max / i_max_ts; points outside the month give nothing.
MonthlyFilter ==
    op = "monthly" =>
        /\ DOMAIN resp.val =
              {StrfDay(ts) : ts \in UNION {SampledInRequest(stat) : stat \in Stats}}
        /\ \A day_num \in DOMAIN resp.val :
              \A stat \in {"min", "max"} :
                  LET T == SampledOn(stat, day_num)
                      rec == resp.val[day_num]
                  IN  IF T = {}
                      THEN StatField(stat) \notin DOMAIN rec /\ TsField(stat) \notin DOMAIN rec
                      ELSE /\ {StatField(stat), TsField(stat)} \subseteq DOMAIN rec
                           /\ \E ts \in T : /\ rec[StatField(stat)] = Sample(stat, ts)
                                            /\ rec[TsField(stat)] = ts

\* A monthly response with a day bucket holding a summarized min, while a
\* sample of another month, on another day number, got no bucket.
MonthlyFilterWitness ==
    /\ op = "monthly"
    /\ \E t1, t2 \in Timestamps :
        /\ HasSample("min", t1) /\ InRequest(t1)
        /\ \E stat \in Stats : HasSample(stat, t2)
        /\ ~InRequest(t2)
        /\ StrfDay(t2) # StrfDay(t1)
        /\ DOMAIN resp.val = {StrfDay(t1)}
        /\ resp.val[StrfDay(t1)]["i_min_ts"] = t1

\* The latest of a non-empty set of timestamps.
Latest(T) == CHOOSE ts \in T : \A other \in T : other <= ts

\* C10: a day of the requested month with raw avg samples has f_avg_buff
\* their sum, i_counter their number, and f_act / i_act_ts the value and the
\* timestamp of the latest of them.
MonthlyAverage ==
    op = "monthly" =>
        \A ts \in SampledInRequest("avg") :
            LET day_num == StrfDay(ts)
                T == SampledOn("avg", day_num)
            IN  /\ day_num \in DOMAIN resp.val
                /\ {"f_avg_buff", "i_counter", "f_act", "i_act_ts"}
                      \subseteq DOMAIN resp.val[day_num]
                /\ resp.val[day_num]["f_avg_buff"] = SumOf("avg", T)
                /\ resp.val[day_num]["i_counter"] = Cardinality(T)
                /\ resp.val[day_num]["f_act"] = Sample("avg", Latest(T))
                /\ resp.val[day_num]["i_act_ts"] = Latest(T)

\* A monthly response for a day with two raw avg samples of different
\* values, and a summarized min and max that the averages do not come from.
MonthlyAverageWitness ==
    /\ op = "monthly"
    /\ \E t1, t2 \in SampledInRequest("avg") :
        /\ t1 < t2
        /\ StrfDay(t1) = StrfDay(t2)
        /\ Sample("avg", t1) # Sample("avg", t2)
        /\ resp.val[StrfDay(t1)]["i_counter"] = 2
        /\ resp.val[StrfDay(t1)]["f_act"] = Sample("avg", t2)
        /\ resp.val[StrfDay(t1)]["i_act_ts"] = t2
        /\ "f_min" \in DOMAIN resp.val[StrfDay(t1)]

\* The value and the timestamp of the summarized sample of a statistic on a
\* day of the requested month (a summarized series has one point per day).
DaySample(stat, day_num) == Sample(stat, CHOOSE ts \in SampledOn(stat, day_num) : TRUE)
DaySampleTs(stat, day_num) == CHOOSE ts \in SampledOn(stat, day_num) : TRUE

\* C11: a day of the requested month with a summarized min sample and a
\* summarized max sample and no raw avg sample has f_avg_buff the half of
\* their sum, i_counter 1, f_act that same value and i_act_ts the day's
\* i_max_ts; a day with raw avg samples keeps the counter and the last value
\* of those samples.
MonthlyFallbackFills ==
    op = "monthly" =>
        \A day_num \in DOMAIN resp.val :
            LET rec == resp.val[day_num]
                half == RatDivInt(RatAdd(DaySample("min", day_num),
                                         DaySample("max", day_num)), 2)
            IN  /\ (/\ SampledOn("min", day_num) # {}
                    /\ SampledOn("max", day_num) # {}
                    /\ SampledOn("avg", day_num) = {})
                   => /\ {"f_avg_buff", "i_counter", "f_act", "i_act_ts", "i_max_ts"}
                            \subseteq DOMAIN rec
                      /\ rec["f_avg_buff"] = half
                      /\ rec["i_counter"] = 1
                      /\ rec["f_act"] = half
                      /\ rec["i_act_ts"] = rec["i_max_ts"]
                      /\ rec["i_act_ts"] = DaySampleTs("max", day_num)
                /\ SampledOn("avg", day_num) # {}
                   => /\ rec["i_counter"] = Cardinality(SampledOn("avg", day_num))
                      /\ rec["i_act_ts"] = Latest(SampledOn("avg", day_num))
                      /\ rec["f_act"] = Sample("avg", Latest(SampledOn("avg", day_num)))

\* A monthly response for a day with min 0 and max 1 at different times and
\* no raw avg sample: the fallback gives 1/2 with the timestamp of the max.
MonthlyFallbackFillsWitness ==
    /\ op = "monthly"
    /\ \E day_num \in DOMAIN resp.val :
        /\ SampledOn("avg", day_num) = {}
        /\ SampledOn("min", day_num) # {} /\ SampledOn("max", day_num) # {}
        /\ DaySampleTs("min", day_num) # DaySampleTs("max", day_num)
        /\ resp.val[day_num]["f_min"] = RatOfInt(0)
        /\ resp.val[day_num]["f_max"] = RatOfInt(1)
        /\ resp.val[day_num]["f_avg_buff"] = Rat(1, 2)
        /\ resp.val[day_num]["i_counter"] = 1
        /\ resp.val[day_num]["i_act_ts"] = DaySampleTs("max", day_num)

\* C12 (as claimed): every day bucket of the monthly response has f_avg_buff
\* and i_counter, with i_counter at least 1.
MonthlyBucketsComplete ==
    op = "monthly" =>
        \A day_num \in DOMAIN resp.val :
            /\ {"f_avg_buff", "i_counter"} \subseteq DOMAIN resp.val[day_num]
            /\ resp.val[day_num]["i_counter"] >= 1

---------------------------------------------------------------------------
(* Availability tree *)

\* The channels of the tree response and the tree of one of them.
TreeChannels ==
    UNION {{<<uid, serie>> : serie \in DOMAIN resp.val[uid].val} : uid \in DOMAIN resp.val}
TreeOf(c) == resp.val[c[1]].val[c[2]]

\* The points the backend answers for the lookback window of a channel.
WindowPoints(c) ==
    LET t == CHOOSE x \in DOMAIN backend : x[1][Len(x[1])] = c[1] /\ x[2] = c[2]
    IN  IF backend[t] = <<>> THEN <<>> ELSE backend[t][1].datapoints

\* The time of the most recent point of a non-empty window.
MostRecent(P) == CHOOSE ts \in {P[i][2] : i \in 1 .. Len(P)} :
                     \A i \in 1 .. Len(P) : P[i][2] <= ts

\* The calendar date of a time, and the dates of the samples of a window.
DateOf(ts) == <<StrfYear(ts), StrfMonth(ts), StrfDay(ts)>>
SampleDates(P) == {DateOf(P[i][2]) : i \in {j \in 1 .. Len(P) : P[j][1] # None}}

\* The dates a tree lists.
DatesIn(tree) ==
    UNION {UNION {{<<tree.years[i], tree.year[tree.years[i]].months[j],
                     tree.year[tree.years[i]].month[tree.year[tree.years[i]].months[j]][k]>> :
                      k \in 1 .. Len(tree.year[tree.years[i]].month[
                                        tree.year[tree.years[i]].months[j]])} :
                  j \in 1 .. Len(tree.year[tree.years[i]].months)} :
           i \in 1 .. Len(tree.years)}

\* C13: for every channel whose window has a point, if the most recent point
\* is less than a day older than the current time then today's date is in
\* the tree, and if it is a day old or more then today's date is in the tree
\* only if a sample of the window falls on today.
TreeTodayInjection ==
    op = "datatree" =>
        \A c \in TreeChannels :
            LET P == WindowPoints(c)
                today == DateOf(req.now)
            IN  P # <<>> =>
                  IF req.now - MostRecent(P) < TicksPerDay
                  THEN today \in DatesIn(TreeOf(c))
                  ELSE today \in DatesIn(TreeOf(c)) => today \in SampleDates(P)

\* A tree response with a channel whose last sample is of yesterday and less
\* than a day old, today being listed without a point, and another channel
\* whose last sample is exactly a day old, today not being listed.
TreeTodayInjectionWitness ==
    /\ op = "datatree"
    /\ \E c1, c2 \in TreeChannels :
        LET P1 == WindowPoints(c1)
            P2 == WindowPoints(c2)
            today == DateOf(req.now)
        IN  /\ P1 # <<>> /\ P2 # <<>>
            /\ P1[Len(P1)][1] # None /\ P2[Len(P2)][1] # None
            /\ req.now - MostRecent(P1) < TicksPerDay
            /\ today \notin SampleDates(P1)
            /\ \A i \in 1 .. Len(P1) : DateOf(P1[i][2]) # today
            /\ today \in DatesIn(TreeOf(c1))
            /\ req.now - MostRecent(P2) = TicksPerDay
            /\ today \notin DatesIn(TreeOf(c2))
            /\ DatesIn(TreeOf(c2)) # {}

\* The number a date string stands for.
DateNumber(s) ==
    CHOOSE k \in (1 .. 31) \cup (1970 .. 1970 + YearOf(FirstTs + MaxTs + TicksPerDay)) :
        s = ToString(k) \/ s = "0" \o ToString(k)

\* A list of date strings is in strictly ascending order.
Ascending(xs) == \A i, j \in 1 .. Len(xs) : i < j => DateNumber(xs[i]) < DateNumber(xs[j])

\* C14: the dates a channel's tree lists are the dates of the samples of its
\* window, with or without today's date; the years list is strictly
\* ascending and names exactly the year entries, the months list of a year
\* is strictly ascending and names exactly its month entries, and the days
\* list of a month is non-empty and strictly ascending.
TreeShape ==
    op = "datatree" =>
        \A c \in TreeChannels :
            LET tree == TreeOf(c)
                P == WindowPoints(c)
            IN  /\ SampleDates(P) \subseteq DatesIn(tree)
                /\ DatesIn(tree) \subseteq SampleDates(P) \cup {DateOf(req.now)}
                /\ Ascending(tree.years)
                /\ ToSet(tree.years) = DOMAIN tree.year
                /\ \A y \in DOMAIN tree.year :
                    /\ Ascending(tree.year[y].months)
                    /\ tree.year[y].months # <<>>
                    /\ ToSet(tree.year[y].months) = DOMAIN tree.year[y].month
                    /\ \A m \in DOMAIN tree.year[y].month :
                        /\ tree.year[y].month[m] # <<>>
                        /\ Ascending(tree.year[y].month[m])

\* A tree with two years, the first with two months, the second of which
\* has two days, today being the only date of the second year.
TreeShapeWitness ==
    /\ op = "datatree"
    /\ \E c \in TreeChannels :
        LET tree == TreeOf(c)
        IN  /\ Len(tree.years) = 2
            /\ Len(tree.year[tree.years[1]].months) = 2
            /\ Len(tree.year[tree.years[1]].month[tree.year[tree.years[1]].months[2]]) = 2
            /\ tree.years[2] = StrfYear(req.now)
            /\ DateOf(req.now) \notin SampleDates(WindowPoints(c))
            /\ Cardinality(SampleDates(WindowPoints(c))) = 3

\* C15 (as claimed): a channel whose window has points, all of them null,
\* has an empty years list.
TreeNullWindowEmpty ==
    op = "datatree" =>
        \A c \in TreeChannels :
            LET P == WindowPoints(c)
            IN  (P # <<>> /\ \A i \in 1 .. Len(P) : P[i][1] = None)
                    => TreeOf(c).years = <<>>

---------------------------------------------------------------------------
(* Legacy binary messages *)

\* The messages delivered on the legacy binary topic.
LegacyDelivered == {i \in 1 .. Len(req) : req[i].topic = legacy_bin_topic}

\* The sample count of a non-empty payload: the top three bits of its first
\* byte, plus one.
SampleCount(payload) == CHOOSE n \in 1 .. 8 : 32 * (n - 1) <= payload[1] /\ payload[1] < 32 * n

\* The number of whole records of a payload, and the number decoded.
WholeRecords(payload) == CHOOSE k \in 0 .. Len(payload) :
                             version1_len * k <= Len(payload) /\ Len(payload) < version1_len * (k + 1)
Decoded(payload) ==
    IF SampleCount(payload) < WholeRecords(payload)
    THEN SampleCount(payload) ELSE WholeRecords(payload)

\* The j-th write (1..6) of the k-th record of the i-th message delivered.
WriteOf(i, k, j) == resp[i].writes[6 * (k - 1) + j]

\* C16: a non-empty payload of the legacy topic gives six writes for each of
\* its first min(N, floor(L / 37)) records and no other write, N being read
\* from the first byte of the payload; the k-th six writes are those of the
\* k-th record.
LegacyRecordCount ==
    op = "bridge" =>
        \A i \in LegacyDelivered :
            LET payload == req[i].payload
            IN  payload # <<>> =>
                  /\ Len(resp[i].writes) = 6 * Decoded(payload)
                  /\ resp[i].raised = FALSE
                  /\ \A k \in 1 .. Decoded(payload) :
                         /\ WriteOf(i, k, 3).timestamp = req[i].samples[k].ts
                         /\ WriteOf(i, k, 6).timestamp = req[i].samples[k].ts

\* A payload of two records and 36 bytes more whose first byte announces
\* eight samples: twelve writes.
LegacyRecordCountWitness ==
    /\ op = "bridge"
    /\ \E i \in LegacyDelivered :
        /\ Len(req[i].payload) = 3 * version1_len - 1
        /\ req[i].payload[1] = 255
        /\ req[i].samples[2].head = 224
        /\ Len(resp[i].writes) = 12
        /\ Len(metrics) = 12

\* The difference a - b of two 64-bit integers that are close to each other.
Diff(a, b) ==
    (a[1] - b[1]) + 65536 * ((a[2] - b[2]) + 65536 * ((a[3] - b[3]) + 65536 * (a[4] - b[4])))

\* The limbs of a 64-bit integer are in range.
Canonical(a) == \A n \in 1 .. 3 : a[n] \in 0 .. 65535

\* C17: the six writes of a decoded record carry the temperature min, max
\* and avg of the sample divided by 10 and the humidity min, max and avg
\* unscaled; the timestamp of a min or max write is the base timestamp of
\* the sample plus the signed offset of that statistic, that of an avg write
\* is the base timestamp.
LegacyFieldDecoding ==
    op = "bridge" =>
        \A i \in LegacyDelivered :
            \A k \in 1 .. (Len(resp[i].writes) \div 6) :
                LET sample == req[i].samples[k]
                    w(j) == WriteOf(i, k, j)
                IN  /\ w(1).value = Rat(sample.temp.min, 10)
                    /\ w(2).value = Rat(sample.temp.max, 10)
                    /\ w(3).value = Rat(sample.temp.avg, 10)
                    /\ w(4).value = RatOfInt(sample.hum.min)
                    /\ w(5).value = RatOfInt(sample.hum.max)
                    /\ w(6).value = RatOfInt(sample.hum.avg)
                    /\ \A j \in 1 .. 6 : Canonical(w(j).timestamp)
                    /\ Diff(w(1).timestamp, sample.ts) = sample.temp.min_ts_offset
                    /\ Diff(w(2).timestamp, sample.ts) = sample.temp.max_ts_offset
                    /\ w(3).timestamp = sample.ts
                    /\ Diff(w(4).timestamp, sample.ts) = sample.hum.min_ts_offset
                    /\ Diff(w(5).timestamp, sample.ts) = sample.hum.max_ts_offset
                    /\ w(6).timestamp = sample.ts

\* A record with the temperature bytes FF FF (-0.1), a negative humidity
\* offset that borrows from the upper limbs of the timestamp, and a
\* humidity maximum of 75.
LegacyFieldDecodingWitness ==
    /\ op = "bridge"
    /\ \E i \in LegacyDelivered :
        /\ Len(resp[i].writes) >= 6
        /\ SubSeq(req[i].payload, 18, 19) = <<255, 255>>
        /\ WriteOf(i, 1, 3).value = <<-1, 10>>
        /\ WriteOf(i, 1, 1).value = <<-16384, 5>>
        /\ req[i].samples[1].ts = <<2, 0, 0, -32768>>
        /\ req[i].samples[1].hum.min_ts_offset = -32768
        /\ WriteOf(i, 1, 4).timestamp = <<32770, 65535, 65535, -32769>>
        /\ WriteOf(i, 1, 5).value = <<75, 1>>

\* The station key of the uid bytes of a sample.
StationKey(uid) ==
    CASE uid = <<17, 0, 32, 255, 0, 1>> -> "RODOS_110020FF0001"
      [] uid = <<10, 27, 44, 61, 78, 95>> -> "0A1B2C3D4E5F_0A1B2C3D4E5F"
      [] uid = <<241, 171, 15, 34, 79, 220>> -> "UNKNOWN_F1AB0F224FDC"

\* The channel and the statistic of the j-th write of a record.
WriteSuffix(j) ==
    CASE j = 1 -> ".Temperature.min" [] j = 2 -> ".Temperature.max"
      [] j = 3 -> ".Temperature.avg" [] j = 4 -> ".Humidity.min"
      [] j = 5 -> ".Humidity.max" [] j = 6 -> ".Humidity.avg"

\* C18: the six writes of a decoded record go to
\* monitoring_data.NAME_uid.{Temperature|Humidity}.{min|max|avg}, uid being
\* the bytes 6..1 of the record in upper-case hex and NAME the upper-cased
\* table name of the uid, or the uid when the table has none.
LegacyStationKey ==
    op = "bridge" =>
        \A i \in LegacyDelivered :
            \A k \in 1 .. (Len(resp[i].writes) \div 6) :
                \A j \in 1 .. 6 :
                    WriteOf(i, k, j).metric_path =
                        "monitoring_data." \o StationKey(req[i].samples[k].uid) \o WriteSuffix(j)

\* A message whose first record is of a uid the table does not know and
\* whose second is of the uid the table names "Unknown".
LegacyStationKeyWitness ==
    /\ op = "bridge"
    /\ \E i \in LegacyDelivered :
        /\ Len(resp[i].writes) = 12
        /\ SubSeq(req[i].payload, 2, 7) = <<95, 78, 61, 44, 27, 10>>
        /\ WriteOf(i, 1, 6).metric_path =
              "monitoring_data.0A1B2C3D4E5F_0A1B2C3D4E5F.Humidity.avg"
        /\ WriteOf(i, 2, 1).metric_path = "monitoring_data.UNKNOWN_F1AB0F224FDC.Temperature.min"

\* C19: a message of the legacy topic is handed to parse_legacy_binary and to
\* no other parser, no exception leaves on_message, an empty payload and a
\* payload of less than 37 bytes give no write, and a message of one whole
\* record delivered after any other gives its six writes.
LegacyErrorContainment ==
    /\ op # "crashed"
    /\ \A i \in LegacyDelivered :
        /\ resp[i].parsers = <<"parse_legacy_binary">>
        /\ resp[i].raised = FALSE
        /\ Len(req[i].payload) < version1_len => resp[i].writes = <<>>
        /\ (i > 1 /\ Len(req[i].payload) = version1_len)
              => /\ Len(resp[i].writes) = 6
                 /\ metrics = resp[i - 1].writes \o resp[i].writes

\* The bridge got an empty payload and then a message of one record, whose
\* six writes are all that was sent.
LegacyErrorContainmentWitness ==
    /\ op = "bridge"
    /\ Len(req) = 2
    /\ req[1].topic = legacy_bin_topic /\ req[1].payload = <<>>
    /\ resp[1].writes = <<>>
    /\ Len(resp[2].writes) = 6
    /\ metrics = resp[2].writes

---------------------------------------------------------------------------
(* Namespace parsing *)

\* The device segments of the namespace, in the order they are listed.
ListedSegments == Distinct([i \in 1 .. Len(metrics) |-> metrics[i].device])

\* The uid and the name a segment stands for: the part after and the part
\* before its last "_", or the segment and its legacy name when it has none.
SegmentUid(d) == d[Len(d)]
SegmentName(d) ==
    IF Len(d) >= 2 THEN SubSeq(d, 1, Len(d) - 1)
    ELSE IF d[1] = "110020FF0001" THEN <<"Rodos">> ELSE d

\* The first listed segment of a uid.
FirstSegment(uid) ==
    ListedSegments[CHOOSE i \in 1 .. Len(ListedSegments) :
                      /\ SegmentUid(ListedSegments[i]) = uid
                      /\ \A j \in 1 .. (i - 1) : SegmentUid(ListedSegments[j]) # uid]

\* C20: the stations of get_stations_desc are the uids of the listed device
\* segments, one station per uid, each with its uid and with the name of the
\* first listed segment of that uid: the part before the last "_", or for a
\* segment without "_" the legacy name of the uid or the uid itself.
NamespaceParsing ==
    op = "desc" =>
        /\ DOMAIN resp.val = {SegmentUid(d) : d \in ToSet(ListedSegments)}
        /\ ToSet(resp.keys) = DOMAIN resp.val
        /\ Len(resp.keys) = Cardinality(DOMAIN resp.val)
        /\ \A uid \in DOMAIN resp.val :
            /\ resp.val[uid].uid = uid
            /\ resp.val[uid].name = SegmentName(FirstSegment(uid))

\* The namespace lists 110020FF0001 before RODOS_110020FF0001, and A1 after
\* MY_ST_A1: two stations, named Rodos and MY_ST.
NamespaceParsingWitness ==
    /\ op = "desc"
    /\ ListedSegments = << <<"110020FF0001">>, <<"RODOS", "110020FF0001">>,
                           <<"MY", "ST", "A1">>, <<"A1">> >>
    /\ resp.keys = <<"110020FF0001", "A1">>
    /\ resp.val["110020FF0001"].name = <<"Rodos">>
    /\ resp.val["A1"].name = <<"MY", "ST">>

---------------------------------------------------------------------------
(* Requests against a failing backend *)

\* The request names a station and a channel that get_stations_desc knows
\* and carries a date the daily handler can parse.
KnownDailyRequest ==
    /\ HasParams(req)
    /\ Resolve(req) # <<>>
    /\ ParseDay(req["date"]) # <<>>

\* Each of the three datapoint queries returns the empty result.
QueriesFail == "render" \in outage \/ \A st \in Stats : backend[st] = <<>>

\* C21: when the find call fails or lists nothing, get_stations_desc returns
\* the empty station map; when the three datapoint queries of a daily request
\* for a known station and channel return the empty result, the daily view is
\* the empty mapping, without a "general" record; neither is an error outcome.
BackendFailureDegrades ==
    /\ (op = "desc" /\ ("find" \in outage \/ metrics = <<>>)) => resp = EmptyDict
    /\ (op = "daily" /\ KnownDailyRequest /\ QueriesFail) =>
          /\ resp.status = 200
          /\ resp.body = EmptyDict
          /\ ~Has(resp.body, "general")

\* A daily request for RODOS_110020FF0001 / Temperature while the render API
\* is down, although the backend holds a sample of the channel.
BackendFailureDegradesWitness ==
    /\ op = "daily"
    /\ KnownDailyRequest
    /\ req["uid"] = <<"RODOS", "110020FF0001">>
    /\ "render" \in outage
    /\ \E st \in Stats : backend[st] # <<>> /\ backend[st][1].datapoints # <<>>
    /\ resp = Ok(EmptyDict)

---------------------------------------------------------------------------
(* Malformed request parameters *)

SeriesHandlers == {"daily", "monthly", "yearly"}

\* The request carries the three parameters and a series handler answered it.
Answered == op \in SeriesHandlers /\ HasParams(req)

\* No station of the namespace has the uid of the request.
UnknownStation == ~KnownUid(get_stations_desc, RequestUid(req["uid"]))

\* The station is known and none of its channels has the ID of the request.
UnknownChannel ==
    /\ ~UnknownStation
    /\ LET serie == get_stations_desc.val[RequestUid(req["uid"])[1]].serie
       IN  \A s_name \in DOMAIN serie.val : ToString(serie.val[s_name]) # req["serie"]

\* The date is not one the answering handler can parse: YYYY-MM-DD for the
\* daily, YYYY-MM for the monthly and YYYY for the yearly view.
UnparseableDate ==
    \/ op = "daily" /\ ParseDay(req["date"]) = <<>>
    \/ op = "monthly" /\ ParseMonth(req["date"]) = <<>>
    \/ op = "yearly" /\ ParseYear(req["date"]) = <<>>

\* C22: a daily, monthly or yearly request with an unknown station uid, a
\* channel ID that matches no channel of the station or an unparseable date
\* is answered with the empty result object and not with an error outcome.
MalformedRequestEmpty ==
    (Answered /\ (UnknownStation \/ UnknownChannel \/ UnparseableDate)) =>
        /\ resp.status = 200
        /\ resp.body = EmptyDict

\* A monthly request for channel 9 of RODOS_110020FF0001, which has channels
\* 1 and 2 only, while the backend holds a sample and answers.
MalformedRequestEmptyWitness ==
    /\ op = "monthly"
    /\ HasParams(req)
    /\ req["uid"] = <<"RODOS", "110020FF0001">>
    /\ req["serie"] = "9"
    /\ req["date"] = <<"1970", "02">>
    /\ UnknownChannel
    /\ outage = {}
    /\ \E st \in Stats : backend[st] # <<>> /\ backend[st][1].datapoints # <<>>
    /\ resp = Ok(EmptyDict)

---------------------------------------------------------------------------
(* Determinism of the series handlers *)

\* Two invocations of the same view (and, for the monthly view, of the same
\* month), whatever the clock showed.
SameRun(i, j) ==
    /\ req[i].handler = req[j].handler
    /\ (req[i].handler = "monthly" => req[i].date_obj = req[j].date_obj)

---------------------------------------------------------------------------
(* Defaulting and the order of the statistics *)

\* The samples present at ts are in the order min <= avg <= max, pair by pair.
PresentOrdered(ts) ==
    /\ ({"min", "avg"} \subseteq PresentAt(ts) => RatLeq(Sample("min", ts), Sample("avg", ts)))
    /\ ({"avg", "max"} \subseteq PresentAt(ts) => RatLeq(Sample("avg", ts), Sample("max", ts)))
    /\ ({"min", "max"} \subseteq PresentAt(ts) => RatLeq(Sample("min", ts), Sample("max", ts)))

\* f_min <= f_avg <= f_max in a record
Ordered(rec) == RatLeq(rec["f_min"], rec["f_avg"]) /\ RatLeq(rec["f_avg"], rec["f_max"])

\* avg and exactly one of min and max are sampled at ts, with different values.
AvgAndOneOther(ts) ==
    /\ "avg" \in PresentAt(ts)
    /\ Cardinality(PresentAt(ts)) = 2
    /\ \E s \in PresentAt(ts) : Sample(s, ts) # Sample("avg", ts)

\* C30 as stated: if the samples present at a timestamp are in the order
\* min <= avg <= max, the record after defaulting has f_min <= f_avg <= f_max,
\* and then general.f_min <= general.f_max.
DefaultingKeepsOrder ==
    op = "daily" =>
        /\ \A ts \in SampledTs : PresentOrdered(ts) => Ordered(resp.val[ToString(ts)])
        /\ ((SampledTs # {} /\ \A ts \in SampledTs : PresentOrdered(ts)) =>
               RatLeq(resp.val["general"]["f_min"], resp.val["general"]["f_max"]))

\* C30, amended: if the samples present at a timestamp are in the order
\* min <= avg <= max, the record after defaulting has f_min <= f_max and its
\* three statistics lie between the least and the greatest sample present;
\* f_min <= f_avg <= f_max holds unless avg and exactly one of min and max
\* are sampled with different values, where the defaulted statistic is the
\* mean of the two and lies on the wrong side of f_avg; and
\* general.f_min <= general.f_max holds when every timestamp is so ordered.
DefaultingWithinRange ==
    op = "daily" =>
        /\ \A ts \in SampledTs :
              PresentOrdered(ts) =>
                  LET rec == resp.val[ToString(ts)]
                      present == {Sample(s, ts) : s \in PresentAt(ts)}
                  IN  /\ RatLeq(rec["f_min"], rec["f_max"])
                      /\ \A f \in {"f_min", "f_avg", "f_max"} :
                             \E lo, hi \in present : RatLeq(lo, rec[f]) /\ RatLeq(rec[f], hi)
                      /\ (~AvgAndOneOther(ts) => Ordered(rec))
                      /\ (AvgAndOneOther(ts) => ~Ordered(rec))
        /\ ((SampledTs # {} /\ \A ts \in SampledTs : PresentOrdered(ts)) =>
               RatLeq(resp.val["general"]["f_min"], resp.val["general"]["f_max"]))

\* A daily response with a timestamp where min and max are sampled with
\* different values, f_avg being defaulted strictly between them, and a
\* second sampled timestamp; "general" has f_min < f_max.
DefaultingWithinRangeWitness ==
    /\ op = "daily"
    /\ Cardinality(SampledTs) = 2
    /\ \A ts \in SampledTs : PresentOrdered(ts)
    /\ \E t1 \in SampledTs :
        /\ PresentAt(t1) = {"min", "max"}
        /\ RatLess(Sample("min", t1), Sample("max", t1))
        /\ RatLess(resp.val[ToString(t1)]["f_min"], resp.val[ToString(t1)]["f_avg"])
        /\ RatLess(resp.val[ToString(t1)]["f_avg"], resp.val[ToString(t1)]["f_max"])
    /\ RatLess(resp.val["general"]["f_min"], resp.val["general"]["f_max"])

---------------------------------------------------------------------------
(* The uid of a request and the uid of the namespace *)

\* The request names a device segment NAME_UID that the namespace lists and
\* that the find call returns.
RequestsListedSegment ==
    /\ Answered
    /\ "find" \notin outage
    /\ Len(req["uid"]) >= 2
    /\ req["uid"] \in ToSet(ListedSegments)

\* C28: a daily, monthly or yearly request whose uid parameter is a listed
\* segment NAME_UID resolves to the uid of the station that get_stations_desc
\* derives from that segment (the part after the last "_"), and is not
\* answered as an unknown station, also when NAME has a "_".
RequestUidAgrees ==
    RequestsListedSegment =>
        /\ Has(get_stations_desc, SegmentUid(req["uid"]))
        /\ RequestUid(req["uid"]) = <<SegmentUid(req["uid"])>>
        /\ ~UnknownStation

---------------------------------------------------------------------------
(* Channel discovery *)

\* C29: in the answer of get_stations_desc, for every listed metric
\* prefix.SEGMENT.CHANNEL the station of the uid of SEGMENT has CHANNEL in
\* its channel-ID map, also when SEGMENT has no "_" and when its uid was
\* listed before under another name.
ChannelDiscoveryCovers ==
    op = "desc" =>
        \A i \in 1 .. Len(metrics) :
            LET uid == SegmentUid(metrics[i].device)
            IN  /\ Has(resp, uid)
                /\ metrics[i].serie \in DOMAIN resp.val[uid].serie.val

---------------------------------------------------------------------------
(* Newest values *)

\* The timestamps of today's window at which a statistic has a sample.
SampledAt(stat) == {ts \in Timestamps : HasSample(stat, ts)}

\* serie_data of the channel in the response.
NewestOf(uid, serie) == resp.val[uid].val[serie]

\* C25: for the channel, when its avg stream has a sample in today's window,
\* f_act / i_act_ts and f_avg / i_avg_ts are the value and the timestamp of
\* the latest avg sample, f_avg_buff is the sum and i_counter the number of
\* the avg samples; f_min / i_min_ts are the value and the timestamp of a
\* least min sample and f_max / i_max_ts those of a greatest max sample.
NewestSummary ==
    (op = "newest" /\ SampledAt("avg") # {}) =>
        /\ Has(resp, "110020FF0001")
        /\ Has(resp.val["110020FF0001"], "Temperature")
        /\ LET rec == NewestOf("110020FF0001", "Temperature")
               last == Latest(SampledAt("avg"))
           IN  /\ rec["f_act"] = Sample("avg", last) /\ rec["i_act_ts"] = last
               /\ rec["f_avg"] = Sample("avg", last) /\ rec["i_avg_ts"] = last
               /\ rec["f_avg_buff"] = SumOf("avg", SampledAt("avg"))
               /\ rec["i_counter"] = Cardinality(SampledAt("avg"))
               /\ (SampledAt("min") # {} =>
                      /\ IsLeast(rec["f_min"], {Sample("min", ts) : ts \in SampledAt("min")})
                      /\ rec["i_min_ts"] \in SampledAt("min")
                      /\ Sample("min", rec["i_min_ts"]) = rec["f_min"])
               /\ (SampledAt("max") # {} =>
                      /\ IsGreatest(rec["f_max"], {Sample("max", ts) : ts \in SampledAt("max")})
                      /\ rec["i_max_ts"] \in SampledAt("max")
                      /\ Sample("max", rec["i_max_ts"]) = rec["f_max"])

\* Today's avg stream has two different samples followed by a null point:
\* f_act is the second sample, f_avg_buff the sum of the two.
NewestSummaryWitness ==
    /\ op = "newest"
    /\ Cardinality(SampledAt("avg")) = 2
    /\ HasNull("avg", FirstTs + MaxTs - 1)
    /\ \E t1, t2 \in SampledAt("avg") : t1 < t2 /\ Sample("avg", t1) # Sample("avg", t2)
    /\ LET rec == NewestOf("110020FF0001", "Temperature")
       IN  /\ rec["i_act_ts"] = FirstTs + MaxTs - 2
           /\ rec["i_counter"] = 2
           /\ rec["f_avg_buff"] = RatOfInt(MaxVal)

---------------------------------------------------------------------------
(* JSON messages *)

\* The levels of a topic "/P/UID/data" for the configured prefix P, and its
\* UID: the levels of P, one more level and "data", empty levels aside.
OnPrefixedDataTopic(topic) ==
    LET levels == NonEmptyLevels(topic)
        p == NonEmptyLevels(topic_prefix)
    IN  /\ p # <<>>
        /\ Len(levels) = Len(p) + 2
        /\ SubSeq(levels, 1, Len(p)) = p
        /\ levels[Len(levels)] = "data"
UidOfTopic(topic) == NonEmptyLevels(topic)[Len(NonEmptyLevels(topic)) - 1]

\* The sensor types of an object payload and the statistics each one has.
TypesOf(payload) == {k \in DOMAIN payload.val : payload.val[k].type = "object"}
StatsOf(object) == DOMAIN object.val \cap Stats

\* A payload of the statistics format: an object without sensor_name whose
\* statistics are numbers.
StatisticsPayload(payload) ==
    /\ payload.type = "object"
    /\ "sensor_name" \notin DOMAIN payload.val
    /\ \A k \in TypesOf(payload) : \A s \in StatsOf(payload.val[k]) :
           payload.val[k].val[s].type = "number"

\* The writes C24 expects of a message: path P'.UID.Type.stat and the value.
ExpectedStatistics(msg) ==
    {[metric_path |-> JoinDots(NonEmptyLevels(topic_prefix)) \o "." \o UidOfTopic(msg.topic)
                         \o "." \o ReplaceSpaces(k) \o "." \o s,
      value |-> msg.payload.val[k].val[s].num] :
        <<k, s>> \in {<<k, s>> \in TypesOf(msg.payload) \X Stats :
                         s \in StatsOf(msg.payload.val[k])}}

PathsAndValues(writes) ==
    {[metric_path |-> writes[j].metric_path, value |-> writes[j].value] :
        j \in 1 .. Len(writes)}

\* C24: a JSON object payload without sensor_name received on /P/UID/data,
\* P the configured prefix, gives exactly one write per statistic among min,
\* max, avg present in each sensor-type object, to the path P'.UID.Type.stat
\* with P' the non-empty levels of the prefix joined by dots, with the value
\* of the statistic, and no other write.
JsonStatisticsForwarding ==
    \A i \in 1 .. Len(req) :
        (StatisticsPayload(req[i].payload) /\ OnPrefixedDataTopic(req[i].topic))
            => /\ PathsAndValues(resp[i].writes) = ExpectedStatistics(req[i])
               /\ Len(resp[i].writes) = Cardinality(ExpectedStatistics(req[i]))

---------------------------------------------------------------------------
(* The simple key-value format *)

\* The top-level fields of an object payload, sensor_name aside, whose value
\* is a number.
NumericFields(payload) ==
    {k \in DOMAIN payload.val \ {"sensor_name"} : payload.val[k].type = "number"}

\* C27: for a JSON object payload in which a top-level field other than
\* sensor_name has a numeric value, parse_message emits one write to the path
\* base_path.Field (spaces in the field name replaced by "_") with that value.
SimpleKeyValueForwarding ==
    \A i \in 1 .. Len(req) :
        req[i].payload.type = "object" =>
            \A k \in NumericFields(req[i].payload) :
                Cardinality({j \in 1 .. Len(resp[i].writes) :
                    /\ resp[i].writes[j].metric_path
                           = BasePath(SensorUid(req[i].topic)) \o "." \o ReplaceSpaces(k)
                    /\ resp[i].writes[j].value = req[i].payload.val[k].num}) = 1

---------------------------------------------------------------------------
(* No retries in the write path *)

\* The calls whose sendall raised.
FailedSends == {i \in 1 .. Len(req) : resp[i].sendall # <<>> /\ resp[i].sendall[1].raised}

\* C26: over any sequence of send_metric calls, each call makes at most one
\* transmission attempt, of its own metric, and no metric is transmitted by
\* any other call; after a send that failed the socket is None, the next
\* call first attempts one connect and returns False without sending when
\* that connect fails; a call returns True only when its metric was handed
\* to a connected socket.
NoRetries ==
    /\ \A i \in 1 .. Len(req) :
           /\ Len(resp[i].sendall) <= 1
           /\ \A j \in 1 .. Len(resp[i].sendall) : resp[i].sendall[j].message = req[i]
           /\ resp[i].returned =>
                  /\ Len(resp[i].sendall) = 1
                  /\ resp[i].sendall[1].on = <<"connected">>
                  /\ ~resp[i].sendall[1].raised
    /\ \A i \in 1 .. Len(req) :
           Cardinality({t \in 1 .. Len(metrics) : metrics[t].message = req[i]}) <= 1
    /\ Len(metrics) <= Len(req)
    /\ \A i \in FailedSends :
           /\ resp[i].after = None
           /\ ~resp[i].returned
           /\ i < Len(req) =>
                  /\ resp[i + 1].before = None
                  /\ Len(resp[i + 1].connects) = 1
                  /\ resp[i + 1].connects[1] # "ok" =>
                         resp[i + 1].sendall = <<>> /\ ~resp[i + 1].returned

\* A send failed on a connected socket, the next call could not connect and
\* sent nothing, and a later call connected and sent its metric.
NoRetriesWitness ==
    /\ Len(req) >= 3
    /\ 1 \in FailedSends
    /\ resp[1].sendall[1].on = <<"connected">>
    /\ resp[2].connects = <<"refused">>
    /\ resp[2].sendall = <<>>
    /\ \E i \in 3 .. Len(req) : resp[i].returned /\ resp[i].connects = <<"ok">>

=============================================================================
